---- MODULE Spec2Model ----
(***************************************************************************)
(* Row-Column game: the rule implementations (legal-move generators), the  *)
(* move-selection strategies and the two hosts that own the authoritative  *)
(* game state (SimulationEngine.run_game and GameHandler).                 *)
(*                                                                         *)
(* Encoding.  A board is a function row -> (column -> value) over          *)
(* 0..n-1, as the Python code indexes it (board[r][c]).  The string '-'    *)
(* that marks a claimed cell of the hosts' matrix is the integer Dash,     *)
(* which no cell value (a non-negative integer) equals.  Python's None is  *)
(* the empty tuple; a move (r, c) is the tuple <<r, c>>.  A Python list    *)
(* is a sequence.                                                          *)
(***************************************************************************)
EXTENDS Integers, Sequences, FiniteSets, TLC

VARIABLES
    host,            \* which owner of the game state runs, or "call"
    matrix,          \* the caller's / host's board (self.matrix), '-' = Dash
    last_move,       \* self.last_move: None or <<r, c>>
    score,           \* self.score: <<p1, p2>>
    current_player,  \* self.current_player: 0 or 1
    players,         \* self.players: the kind of each player
    buttons,         \* Board.grid_buttons' states: "normal" or "disabled"
    timers,          \* callbacks scheduled with root.after and not yet run
    dialogs,         \* number of "Game Over" dialogs shown
    err,             \* the exception the last handler raised, or "none"
    result,          \* what run_game returned
    pc,              \* control position of the host or of the call
    callee,          \* the operation the last step ran
    ret,             \* the move it was given or the value it returned
    heap,            \* the board objects a tree search allocated
    nodes,           \* the tree nodes a search created, the root first
    cur_node,        \* MCTSStrategy.move's local node (index into nodes)
    iterations,      \* passes of the search loop started so far
    sim_result,      \* simulate's raw score difference (result * total_sum)
    total_sum,       \* MCTSStrategy.move's local total_sum
    max_iterations,  \* MCTSStrategy.max_iterations
    strategy         \* the fields of the strategy object that move() is called on

gameVars == <<matrix, last_move, score, current_player>>

guiVars == <<buttons, timers, dialogs>>

searchVars == <<heap, nodes, cur_node, iterations, sim_result, total_sum,
                max_iterations>>

vars == <<host, matrix, last_move, score, current_player, players, buttons,
          timers, dialogs, err, result, pc, callee, ret, heap, nodes, cur_node,
          iterations, sim_result, total_sum, max_iterations, strategy>>

----------------------------------------------------------------------------
(* Encoding constants and bounds *)

Dash == -1
None == <<>>
NoResult == [p1_score |-> 0, p2_score |-> 0, winner |-> "none"]

\* largest cell value of the enumerated boards
MaxVal == 2
\* largest number of unclaimed cells of an enumerated 3x3 board
MaxFree == 2

----------------------------------------------------------------------------
(* Python helpers *)

Dim(board) == Cardinality(DOMAIN board)

Range(s) == {s[i] : i \in 1..Len(s)}

NoDup(s) == \A i, j \in 1..Len(s) : s[i] = s[j] => i = j

\* [(r, c) for r in range(n) for c in range(n)]
RowMajor(n) == [k \in 1..(n * n) |-> <<(k - 1) \div n, (k - 1) % n>>]

\* [(r, j) for j in range(n)]
RowCells(r, n) == [k \in 1..n |-> <<r, k - 1>>]

\* [(i, c) for i in range(n)]
ColCells(c, n) == [k \in 1..n |-> <<k - 1, c>>]

AllCells(n) == (0..(n - 1)) \X (0..(n - 1))

\* the index of the last element whose key is maximal
PyMaxIndex_last(keys) ==
    CHOOSE i \in 1..Len(keys) :
        /\ \A j \in 1..Len(keys) : keys[j] <= keys[i]
        /\ \A j \in (i + 1)..Len(keys) : keys[j] < keys[i]

\* Python's max(seq, key=...): the index of the first element whose key is
\* maximal; keys[i] is the key of the i-th element
PyMaxIndex(keys) ==
    CHOOSE i \in 1..Len(keys) :
        /\ \A j \in 1..Len(keys) : keys[j] <= keys[i]
        /\ \A j \in 1..(i - 1) : keys[j] < keys[i]

SetMax(S) == CHOOSE x \in S : \A y \in S : y <= x

----------------------------------------------------------------------------
(* The legal-move generators, each as its code enumerates *)

\* SimulationEngine.get_available_moves
Sim_get_available_moves(m, dim, lm) ==
    IF lm = None
    THEN SelectSeq(RowMajor(dim), LAMBDA p : m[p[1]][p[2]] # Dash)
    ELSE LET last_r == lm[1]
             last_c == lm[2]
             col == SelectSeq(ColCells(last_c, dim),
                              LAMBDA p : m[p[1]][last_c] # Dash)
             row == SelectSeq(RowCells(last_r, dim),
                              LAMBDA p : p[2] # last_c /\ m[last_r][p[2]] # Dash)
         IN col \o row

\* MCTSNode.get_available_moves with the column loop's "r != last_r" dropped
MCTS_get_available_moves_twice(board, lm) ==
    IF lm = None
    THEN SelectSeq(RowMajor(Dim(board)), LAMBDA p : board[p[1]][p[2]] # 0)
    ELSE SelectSeq(RowCells(lm[1], Dim(board[lm[1]])),
                   LAMBDA p : board[lm[1]][p[2]] # 0)
         \o SelectSeq(ColCells(lm[2], Dim(board)),
                      LAMBDA p : board[p[1]][lm[2]] # 0)

\* MCTSNode.get_available_moves (board uses 0 for a taken cell)
MCTS_get_available_moves(board, lm) ==
    IF lm = None
    THEN SelectSeq(RowMajor(Dim(board)), LAMBDA p : board[p[1]][p[2]] # 0)
    ELSE LET last_r == lm[1]
             last_c == lm[2]
             row_data == board[last_r]
             row == SelectSeq(RowCells(last_r, Dim(row_data)),
                              LAMBDA p : row_data[p[2]] # 0)
             col == SelectSeq(ColCells(last_c, Dim(board)),
                              LAMBDA p : p[1] # last_r /\ board[p[1]][last_c] # 0)
         IN row \o col

\* the inline generator of MCTSStrategy.simulate
Rollout_moves(copied_board, copied_last_move) ==
    IF copied_last_move = None
    THEN SelectSeq(RowMajor(Dim(copied_board)),
                   LAMBDA p : copied_board[p[1]][p[2]] # 0)
    ELSE LET lastrow == copied_last_move[1]
             lastcol == copied_last_move[2]
             row == SelectSeq(RowCells(lastrow, Dim(copied_board[0])),
                              LAMBDA p : copied_board[lastrow][p[2]] # 0)
             col == SelectSeq(ColCells(lastcol, Dim(copied_board)),
                              LAMBDA p : p[1] # lastrow
                                         /\ copied_board[p[1]][lastcol] # 0)
         IN row \o col

\* AlphaBetaNode.get_available_moves (the computation behind the cache)
AB_get_available_moves(board, lm) ==
    IF lm = None
    THEN SelectSeq(RowMajor(Dim(board)), LAMBDA p : board[p[1]][p[2]] # 0)
    ELSE LET last_r == lm[1]
             last_c == lm[2]
             row == SelectSeq(RowCells(last_r, Dim(board[last_r])),
                              LAMBDA p : board[last_r][p[2]] # 0)
             col == SelectSeq(ColCells(last_c, Dim(board)),
                              LAMBDA p : p[1] # last_r /\ board[p[1]][last_c] # 0)
         IN row \o col

\* the candidate enumeration with the row/column restriction dropped
Available_anywhere(m, lm) ==
    SelectSeq(RowMajor(Dim(m)), LAMBDA p : m[p[1]][p[2]] # Dash)

\* the candidate enumeration of RandomStrategy.move and GreedyStrategy.move
Available(m, lm) ==
    LET n == Dim(m)
    IN IF lm = None
       THEN SelectSeq(RowMajor(n), LAMBDA p : m[p[1]][p[2]] # Dash)
       ELSE SelectSeq(RowMajor(n),
                      LAMBDA p : m[p[1]][p[2]] # Dash
                                 /\ (p[1] = lm[1] \/ p[2] = lm[2]))

\* SafeChoiceStrategy._is_free
IsFree(val) == val # Dash

\* SafeChoiceStrategy._valid_moves
Safe_valid_moves(m, lm) ==
    LET n == Dim(m)
    IN IF lm = None
       THEN SelectSeq(RowMajor(n), LAMBDA p : IsFree(m[p[1]][p[2]]))
       ELSE LET r0 == lm[1]
                c0 == lm[2]
                row == SelectSeq(RowCells(r0, n), LAMBDA p : IsFree(m[r0][p[2]]))
                seen == Range(row)
                col == SelectSeq(ColCells(c0, n),
                                 LAMBDA p : IsFree(m[p[1]][c0]) /\ p \notin seen)
            IN row \o col

\* the strategies' conversion of the host's matrix: '-' becomes 0
ToInternal(m) == [r \in DOMAIN m |-> [c \in DOMAIN m[r] |->
                     IF m[r][c] = Dash THEN 0 ELSE m[r][c]]]

----------------------------------------------------------------------------
(* The rule of the game (section 3 of the design), the reference the       *)
(* generators and strategies are compared with                            *)

Unclaimed(m) == {p \in AllCells(Dim(m)) : m[p[1]][p[2]] # Dash}

LegalSet(m, lm) ==
    IF lm = None
    THEN Unclaimed(m)
    ELSE {p \in Unclaimed(m) : p[1] = lm[1] \/ p[2] = lm[2]}

\* the same rule on a board that marks a taken cell with 0
Unclaimed0(board) == {p \in AllCells(Dim(board)) : board[p[1]][p[2]] # 0}

LegalSet0(board, lm) ==
    IF lm = None
    THEN Unclaimed0(board)
    ELSE {p \in Unclaimed0(board) : p[1] = lm[1] \/ p[2] = lm[2]}

----------------------------------------------------------------------------
(* RandomStrategy, GreedyStrategy, SafeChoiceStrategy *)

\* RandomStrategy.move: the values rd.choice may return
RandomStrategy_move(m, lm) ==
    LET available == Available(m, lm)
    IN IF available = <<>> THEN {None} ELSE Range(available)

\* the first available cell instead of the maximal one
GreedyStrategy_move_first(m, lm) ==
    LET available == Available(m, lm)
    IN IF available = <<>> THEN None ELSE available[1]

\* min for max
GreedyStrategy_move_min(m, lm) ==
    LET available == Available(m, lm)
    IN IF available = <<>>
       THEN None
       ELSE available[PyMaxIndex([k \in 1..Len(available) |->
                          0 - m[available[k][1]][available[k][2]]])]

\* GreedyStrategy.move
GreedyStrategy_move(m, lm) ==
    LET available == Available(m, lm)
    IN IF available = <<>>
       THEN None
       ELSE available[PyMaxIndex([k \in 1..Len(available) |->
                          m[available[k][1]][available[k][2]]])]

\* AlphaBetaStrategy.__init__ defaults
max_nodes_budget == 60000
hard_depth_cap == 12

\* the strategy object: the fields AlphaBetaStrategy.__init__ sets from its
\* arguments, player_id (set in move) and the two summary caches of
\* SafeChoiceStrategy.__init__, a cache being a function from the row or
\* column index to its summary
Strategy_init(budget, cap) ==
    [max_nodes_budget |-> budget, hard_depth_cap |-> cap, player_id |-> 1,
     row_summary_cache |-> <<>>, col_summary_cache |-> <<>>]

\* a strategy object constructed without arguments
DefaultStrategy == Strategy_init(max_nodes_budget, hard_depth_cap)

\* the values of the free cells of row i / column j, in index order
FreeRowVals(m, i) ==
    LET free == SelectSeq(RowCells(i, Dim(m)), LAMBDA p : IsFree(m[i][p[2]]))
    IN [k \in 1..Len(free) |-> m[i][free[k][2]]]

FreeColVals(m, j) ==
    LET free == SelectSeq(ColCells(j, Dim(m)), LAMBDA p : IsFree(m[p[1]][j]))
    IN [k \in 1..Len(free) |-> m[free[k][1]][j]]

CountOf(vals, x) == Cardinality({k \in 1..Len(vals) : vals[k] = x})

\* SafeChoiceStrategy._top2_from_values; has1 / has2 tell top1 / top2 from None
Top2_from_values(vals) ==
    IF vals = <<>>
    THEN [has1 |-> FALSE, top1 |-> 0, cnt1 |-> 0, has2 |-> FALSE, top2 |-> 0, cnt2 |-> 0]
    ELSE LET distinct == Range(vals)
             t1 == SetMax(distinct)
             rest == distinct \ {t1}
         IN IF rest # {}
            THEN [has1 |-> TRUE, top1 |-> t1, cnt1 |-> CountOf(vals, t1),
                  has2 |-> TRUE, top2 |-> SetMax(rest),
                  cnt2 |-> CountOf(vals, SetMax(rest))]
            ELSE [has1 |-> TRUE, top1 |-> t1, cnt1 |-> CountOf(vals, t1),
                  has2 |-> FALSE, top2 |-> 0, cnt2 |-> 0]

\* SafeChoiceStrategy._top2_summary_row / _top2_summary_col (the cached value)
Top2_summary_row(m, i) == Top2_from_values(FreeRowVals(m, i))

Top2_summary_col(m, j) == Top2_from_values(FreeColVals(m, j))

\* _top2_summary_row / _top2_summary_col on the object self: the cached
\* summary if the index is in the cache, the computed one otherwise.  The
\* entries a move() adds are summaries of its own matrix, so within one
\* move() a lookup differs from the computed value only for an index that
\* was in the cache when the candidate loop began.
Top2_summary_row_self(self, m, i) ==
    IF i \in DOMAIN self.row_summary_cache
    THEN self.row_summary_cache[i]
    ELSE Top2_summary_row(m, i)

Top2_summary_col_self(self, m, j) ==
    IF j \in DOMAIN self.col_summary_cache
    THEN self.col_summary_cache[j]
    ELSE Top2_summary_col(m, j)

\* self._row_summary_cache.clear() and self._col_summary_cache.clear()
Caches_cleared(self) ==
    [self EXCEPT !.row_summary_cache = <<>>, !.col_summary_cache = <<>>]

\* the parity of the row's top count with the candidate left in
Parity_from_row_including(v_ij, row_summary) ==
    IF ~row_summary.has1
    THEN 1
    ELSE IF row_summary.cnt1 % 2 = 0 THEN 1 ELSE -1

\* SafeChoiceStrategy._parity_from_row_excluding
Parity_from_row_excluding(v_ij, row_summary) ==
    IF ~row_summary.has1
    THEN 1
    ELSE LET mm == IF v_ij = row_summary.top1
                   THEN (IF row_summary.cnt1 > 1 THEN row_summary.cnt1 - 1
                                                 ELSE row_summary.cnt2)
                   ELSE row_summary.cnt1
         IN IF mm % 2 = 0 THEN 1 ELSE -1

\* SafeChoiceStrategy._parity_from_col_excluding
Parity_from_col_excluding(v_ij, col_summary) ==
    IF ~col_summary.has1
    THEN 1
    ELSE LET mm == IF v_ij = col_summary.top1
                   THEN (IF col_summary.cnt1 > 1 THEN col_summary.cnt1 - 1
                                                 ELSE col_summary.cnt2)
                   ELSE col_summary.cnt1
         IN IF mm % 2 = 0 THEN 1 ELSE -1

\* the scan that does not skip the candidate's own cell
Opponent_best_after_own(m, i, j) ==
    LET n == Dim(m)
        seen == {m[i][jj] : jj \in {x \in 0..(n - 1) : m[i][x] # Dash}}
                \cup {m[ii][j] : ii \in {x \in 0..(n - 1) : m[x][j] # Dash}}
    IN IF seen = {} THEN 0 ELSE SetMax(seen)

\* SafeChoiceStrategy._opponent_best_after
Opponent_best_after(m, i, j) ==
    LET n == Dim(m)
        seen == {m[i][jj] : jj \in {x \in 0..(n - 1) : x # j /\ m[i][x] # Dash}}
                \cup {m[ii][j] : ii \in {x \in 0..(n - 1) : x # i /\ m[x][j] # Dash}}
    IN IF seen = {} THEN 0 ELSE SetMax(seen)

\* composite = 1.0*v - 1.0*opp_best + 0.15*ones + 0.05*a + 0.05*b as the
\* double the code computes, in units of 1/40: the only rounding that tells
\* two candidates apart is 0.15 + 0.05 - 0.05 = 0.15000000000000002 (v = opp_best,
\* a = 1, b = -1) against 0.15 - 0.05 + 0.05 = 0.15, kept as the odd unit
Composite(v, opp_best, ones, a, b) ==
    40 * (v - opp_best) + 2 * (3 * ones + a + b)
    + (IF v = opp_best /\ a = 1 /\ b = -1 THEN 1 ELSE 0)

\* key = (composite + jitter, ones, a, b, -i, -j) with jitter 0.0
SafeKey(self, m, i, j) ==
    LET v == m[i][j]
        a == Parity_from_row_excluding(v, Top2_summary_row_self(self, m, i))
        b == Parity_from_col_excluding(v, Top2_summary_col_self(self, m, j))
        ones == (IF a = 1 THEN 1 ELSE 0) + (IF b = 1 THEN 1 ELSE 0)
        opp_best == Opponent_best_after(m, i, j)
    IN <<Composite(v, opp_best, ones, a, b), ones, a, b, 0 - i, 0 - j>>

\* Python's tuple comparison k1 > k2
TupleGreater(k1, k2) ==
    \E i \in 1..Len(k1) :
        /\ i <= Len(k2)
        /\ k1[i] > k2[i]
        /\ \A j \in 1..(i - 1) : k1[j] = k2[j]

\* the candidate loop of SafeChoiceStrategy.move from position idx on;
\* self holds the caches as they were when the loop began
RECURSIVE SafeLoop(_, _, _, _, _)
SafeLoop(self, m, candidates, idx, best) ==
    IF idx > Len(candidates)
    THEN best
    ELSE LET p == candidates[idx]
         IN IF m[p[1]][p[2]] = Dash
            THEN SafeLoop(self, m, candidates, idx + 1, best)
            ELSE IF best = None
                    \/ TupleGreater(SafeKey(self, m, p[1], p[2]),
                                    SafeKey(self, m, best[1], best[2]))
                 THEN SafeLoop(self, m, candidates, idx + 1, p)
                 ELSE SafeLoop(self, m, candidates, idx + 1, best)

\* the caches after the candidate loop: an entry for the row and for the
\* column of every candidate it scored
Caches_filled(self, m, candidates) ==
    LET scored == {p \in Range(candidates) : m[p[1]][p[2]] # Dash}
        rows == DOMAIN self.row_summary_cache \cup {p[1] : p \in scored}
        cols == DOMAIN self.col_summary_cache \cup {p[2] : p \in scored}
    IN [self EXCEPT
           !.row_summary_cache =
               IF rows = {} THEN <<>>
               ELSE [i \in rows |-> Top2_summary_row_self(self, m, i)],
           !.col_summary_cache =
               IF cols = {} THEN <<>>
               ELSE [j \in cols |-> Top2_summary_col_self(self, m, j)]]

\* SafeChoiceStrategy.move on the object self: the move it returns and the
\* object afterwards
SafeChoiceStrategy_move_self(self, m, lm) ==
    IF Dim(m) = 0
    THEN [ret |-> None, self |-> self]
    ELSE LET cleared == Caches_cleared(self)
             candidates == Safe_valid_moves(m, lm)
         IN IF candidates = <<>>
            THEN [ret |-> None, self |-> cleared]
            ELSE [ret |-> SafeLoop(cleared, m, candidates, 1, None),
                  self |-> Caches_filled(cleared, m, candidates)]

\* SafeChoiceStrategy().move: the answer of a newly constructed object
SafeChoiceStrategy_move(m, lm) ==
    SafeChoiceStrategy_move_self(DefaultStrategy, m, lm).ret

----------------------------------------------------------------------------
(* AlphaBetaStrategy *)

\* stand-ins for math.inf and -math.inf: beyond every evaluation
PlusInf == 1000000
MinusInf == -1000000

Min2(a, b) == IF a < b THEN a ELSE b
Max2(a, b) == IF a > b THEN a ELSE b

\* b^d
RECURSIVE Pow(_, _)
Pow(b, d) == IF d = 0 THEN 1 ELSE b * Pow(b, d - 1)

\* the largest d with b^d <= x, counted up from d
RECURSIVE FloorLogFrom(_, _, _)
FloorLogFrom(x, b, d) == IF Pow(b, d + 1) > x THEN d ELSE FloorLogFrom(x, b, d + 1)

\* the <<x, b>> with b in 2..10 and 2 <= x <= 200000 for which the double
\* math.log(x, b) = log(x) / log(b) lies just below the integer it stands
\* for: x is a power of b and the quotient is rounded down
LogRoundsDown == {<<243, 3>>, <<59049, 3>>, <<59049, 9>>, <<1000, 10>>}

\* int(math.floor(math.log(x, b))) for b in 2..10 and 2 <= x <= 200000
FloorLog(x, b) ==
    FloorLogFrom(x, b, 0) - (IF <<x, b>> \in LogRoundsDown THEN 1 ELSE 0)

\* sum(row.count(0) for row in internal_board)
CountZeros(board) == Cardinality({p \in AllCells(Dim(board)) : board[p[1]][p[2]] = 0})

\* player_id = 2 if moves_made % 2 else 1
PlayerIdOf(board) == IF CountZeros(board) % 2 # 0 THEN 2 ELSE 1

\* sum(1 for r in board for v in r if v != 0)
CountNonzero(board) == Cardinality({p \in AllCells(Dim(board)) : board[p[1]][p[2]] # 0})

\* a search that always stops after one ply
Dynamic_depth_one(self, board) == 1

\* AlphaBetaStrategy._dynamic_depth on the object self
Dynamic_depth_self(self, board) ==
    LET n == Dim(board)
        nonzero == CountNonzero(board)
        b == Max2(2, Min2(2 * n - 1, 10))
        d0 == Min2(Min2(FloorLog(Max2(self.max_nodes_budget, 2), b), nonzero),
                   self.hard_depth_cap)
        d == IF n <= 3 THEN Min2(nonzero, 9)
             ELSE IF n = 4 THEN Min2(d0 + 1, nonzero)
             ELSE d0
    IN Max2(1, d)

\* _dynamic_depth of an AlphaBetaStrategy() constructed with the defaults
Dynamic_depth(board) == Dynamic_depth_self(DefaultStrategy, board)

\* AlphaBetaNode(board, last_move, player_id, move=..., scores=...)
ABNode(board, lm, player_id, mv, scores) ==
    [board |-> board, last_move |-> lm, player_id |-> player_id,
     move |-> mv, scores |-> scores]

\* the child generate_children builds for one move
AB_child(node, mv) ==
    LET val == node.board[mv[1]][mv[2]]
    IN ABNode([node.board EXCEPT ![mv[1]][mv[2]] = 0], mv, 3 - node.player_id, mv,
              IF node.player_id = 1
              THEN <<node.scores[1] + val, node.scores[2]>>
              ELSE <<node.scores[1], node.scores[2] + val>>)

\* AlphaBetaNode.generate_children
AB_generate_children(node) ==
    LET moves == AB_get_available_moves(node.board, node.last_move)
    IN [k \in 1..Len(moves) |-> AB_child(node, moves[k])]

\* AlphaBetaNode.is_terminal
AB_is_terminal(node) == Len(AB_get_available_moves(node.board, node.last_move)) = 0

\* list.sort(key=..., reverse=...): stable; keys[i] is the key of s[i]
StableSort(s, keys, reverse) ==
    LET Before(i, j) == \/ (IF reverse THEN keys[i] > keys[j] ELSE keys[i] < keys[j])
                        \/ (keys[i] = keys[j] /\ i < j)
        Rank(i) == 1 + Cardinality({j \in 1..Len(s) : Before(j, i)})
    IN [r \in 1..Len(s) |-> s[CHOOSE i \in 1..Len(s) : Rank(i) = r]]

\* AlphaBetaStrategy.evaluate in units of 1/20:
\* 1.0*score_diff + 0.25*(my_moves - opp_moves) + 0.05*row_col_potential
AB_evaluate(node, p) ==
    LET me == node.scores[p]
        opp == node.scores[3 - p]
        avail == AB_get_available_moves(node.board, node.last_move)
        my_moves == IF node.player_id = p THEN Len(avail) ELSE 0
        opp_moves == IF node.player_id = p THEN 0 ELSE Len(avail)
        n == Dim(node.board)
        row_col_potential ==
            IF node.last_move = None
            THEN 0
            ELSE LET r == node.last_move[1]
                     c == node.last_move[2]
                     Sum[k \in 0..n] ==
                         IF k = 0 THEN 0
                         ELSE Sum[k - 1] + node.board[r][k - 1] + node.board[k - 1][c]
                 IN Sum[n]
    IN 20 * (me - opp) + 5 * (my_moves - opp_moves) + row_col_potential

\* a test that stops the loop as long as the window is still open
Cut_inverted(alpha, beta) == alpha <= beta

\* if beta <= alpha: break
Cut(alpha, beta) == beta <= alpha

\* AlphaBetaStrategy.alpha_beta and its loop over the sorted children from
\* position idx on, with the value and window reached so far
RECURSIVE Alpha_beta(_, _, _, _, _, _), AB_loop(_, _, _, _, _, _, _, _)
Alpha_beta(node, depth, alpha, beta, maximizing_player, root_pid) ==
    IF depth = 0 \/ AB_is_terminal(node)
    THEN AB_evaluate(node, root_pid)
    ELSE LET children == AB_generate_children(node)
             keys == [k \in 1..Len(children) |-> children[k].scores[root_pid]]
             sorted == StableSort(children, keys, maximizing_player)
         IN AB_loop(sorted, 1, depth, alpha, beta,
                    IF maximizing_player THEN MinusInf ELSE PlusInf,
                    maximizing_player, root_pid)

AB_loop(children, idx, depth, alpha, beta, value, maximizing_player, root_pid) ==
    IF idx > Len(children)
    THEN value
    ELSE LET v == Alpha_beta(children[idx], depth - 1, alpha, beta,
                             ~maximizing_player, root_pid)
         IN IF maximizing_player
            THEN LET value1 == Max2(value, v)
                     alpha1 == Max2(alpha, value1)
                 IN IF Cut(alpha1, beta)
                    THEN value1
                    ELSE AB_loop(children, idx + 1, depth, alpha1, beta, value1,
                                 maximizing_player, root_pid)
            ELSE LET value1 == Min2(value, v)
                     beta1 == Min2(beta, value1)
                 IN IF Cut(alpha, beta1)
                    THEN value1
                    ELSE AB_loop(children, idx + 1, depth, alpha, beta1, value1,
                                 maximizing_player, root_pid)

\* the root loop of AlphaBetaStrategy.move: the first child whose value is
\* strictly greater than every earlier one (every value is above -inf, so
\* the greedy fallback for best_move None is never taken)
AB_root_best(children, depth, root_pid) ==
    LET vals == [k \in 1..Len(children) |->
                    Alpha_beta(children[k], depth - 1, MinusInf, PlusInf, FALSE, root_pid)]
    IN children[PyMaxIndex(vals)].move

\* an object that keeps track of the turn itself: the stored player id
\* alternates from call to call
Player_id_flipped(self, player_id) == [self EXCEPT !.player_id = 3 - @]

\* self.player_id = player_id

Player_id_set(self, player_id) == [self EXCEPT !.player_id = player_id]

\* AlphaBetaStrategy.move on the object self: the move it returns and the
\* object afterwards; evaluate and alpha_beta read the root player from
\* self.player_id
AlphaBetaStrategy_move_self(self, m, lm, scores) ==
    LET internal_board == ToInternal(m)
        player_id == PlayerIdOf(internal_board)
        self1 == Player_id_set(self, player_id)
        root == ABNode(internal_board, lm, player_id, None, scores)
    IN IF AB_is_terminal(root)
       THEN [ret |-> None, self |-> self1]
       ELSE LET depth == Dynamic_depth_self(self1, internal_board)
                children == AB_generate_children(root)
                \* the root ordering key is the child's own board at its move
                keys == [k \in 1..Len(children) |->
                            children[k].board[children[k].move[1]][children[k].move[2]]]
                sorted == StableSort(children, keys, TRUE)
            IN [ret |-> AB_root_best(sorted, depth, self1.player_id),
                self |-> self1]

\* AlphaBetaStrategy().move: the answer of a newly constructed object
AlphaBetaStrategy_move(m, lm, scores) ==
    AlphaBetaStrategy_move_self(DefaultStrategy, m, lm, scores).ret

----------------------------------------------------------------------------
(* Calls of the generators and of the three list-based strategies on every *)
(* board of the bounded family                                             *)

CellVals == 0..MaxVal

\* the n x n board whose unclaimed cells are free, with the values f gives
MkBoard(n, free, f) ==
    [r \in 0..(n - 1) |-> [c \in 0..(n - 1) |->
        IF <<r, c>> \in free THEN f[<<r, c>>] ELSE Dash]]

BoardsWithFree(n, k) ==
    UNION {{MkBoard(n, free, f) : f \in [free -> CellVals]} :
              free \in {F \in SUBSET AllCells(n) : Cardinality(F) <= k}}

\* every board of dimension 0, 1 and 2, and the 3x3 boards with at most
\* MaxFree unclaimed cells
CallBoards ==
    BoardsWithFree(0, 0) \cup BoardsWithFree(1, 1) \cup BoardsWithFree(2, 4)
    \cup BoardsWithFree(3, MaxFree)

CallScores == {<<0, 0>>, <<MaxVal, 1>>}

\* MCTSStrategy.__init__: the default of max_iterations
default_max_iterations == 10000

\* no tree search has run
NoSearch ==
    /\ heap = <<>>
    /\ nodes = <<>>
    /\ cur_node = 0
    /\ iterations = 0
    /\ sim_result = 0
    /\ total_sum = 1
    /\ max_iterations = default_max_iterations
    /\ strategy = DefaultStrategy

InitCall ==
    /\ matrix \in CallBoards
    /\ last_move \in {None} \cup AllCells(Dim(matrix))
    /\ score \in CallScores
    /\ host = "call"
    /\ current_player = 0
    /\ players = <<"none", "none">>
    /\ buttons = <<>>
    /\ timers = {}
    /\ dialogs = 0
    /\ err = "none"
    /\ result = NoResult
    /\ pc = "ready"
    /\ callee = "none"
    /\ ret = None
    /\ NoSearch

Returned(name, value) ==
    /\ pc = "ready"
    /\ pc' = "returned"
    /\ callee' = name
    /\ ret' = value
    /\ UNCHANGED <<searchVars, host, strategy, gameVars, players, guiVars, err, result>>

CallSimMoves ==
    Returned("Sim_get_available_moves",
             Sim_get_available_moves(matrix, Dim(matrix), last_move))

CallMCTSMoves ==
    Returned("MCTS_get_available_moves",
             MCTS_get_available_moves(ToInternal(matrix), last_move))

CallRolloutMoves ==
    Returned("Rollout_moves", Rollout_moves(ToInternal(matrix), last_move))

CallABMoves ==
    Returned("AB_get_available_moves",
             AB_get_available_moves(ToInternal(matrix), last_move))

CallAvailable ==
    Returned("Available", Available(matrix, last_move))

CallSafeValidMoves ==
    Returned("Safe_valid_moves", Safe_valid_moves(matrix, last_move))

\* every rule implementation on the same position: the hosts' generator, the
\* list-based strategies' enumerations on the '-' board, and the search
\* strategies' generators on the converted board
CallAllGenerators ==
    Returned("all_generators",
             [sim |-> Sim_get_available_moves(matrix, Dim(matrix), last_move),
              available |-> Available(matrix, last_move),
              safe |-> Safe_valid_moves(matrix, last_move),
              mcts |-> MCTS_get_available_moves(ToInternal(matrix), last_move),
              rollout |-> Rollout_moves(ToInternal(matrix), last_move),
              ab |-> AB_get_available_moves(ToInternal(matrix), last_move)])

CallRandom ==
    \E mv \in RandomStrategy_move(matrix, last_move) :
        Returned("RandomStrategy_move", mv)

CallGreedy ==
    Returned("GreedyStrategy_move", GreedyStrategy_move(matrix, last_move))

CallSafeChoice ==
    Returned("SafeChoiceStrategy_move", SafeChoiceStrategy_move(matrix, last_move))

CallAlphaBeta ==
    Returned("AlphaBetaStrategy_move", AlphaBetaStrategy_move(matrix, last_move, score))

NextCall ==
    \/ CallSimMoves
    \/ CallMCTSMoves
    \/ CallRolloutMoves
    \/ CallABMoves
    \/ CallAvailable
    \/ CallSafeValidMoves
    \/ CallAllGenerators
    \/ CallRandom
    \/ CallGreedy
    \/ CallSafeChoice
    \/ CallAlphaBeta

SpecCall == InitCall /\ [][NextCall]_vars

----------------------------------------------------------------------------
(* Claims about the generators and the list-based strategies (SpecCall) *)

\* C1: each legal-move generator returns, without repeating a coordinate,
\* exactly the unclaimed cells of its board when last_move is None, and
\* exactly the unclaimed cells of last_move's row or column otherwise
\* (unclaimed = not '-' for SimulationEngine, not 0 for the node generators)
C1_GeneratorExact ==
    /\ callee = "Sim_get_available_moves" =>
          NoDup(ret) /\ Range(ret) = LegalSet(matrix, last_move)
    /\ callee = "MCTS_get_available_moves" =>
          NoDup(ret) /\ Range(ret) = LegalSet0(ToInternal(matrix), last_move)
    /\ callee = "AB_get_available_moves" =>
          NoDup(ret) /\ Range(ret) = LegalSet0(ToInternal(matrix), last_move)

\* a generator has run after a move onto a cell that is (still) unclaimed,
\* with a legal cell in the row, one in the column, and an unclaimed cell
\* outside both
C1_Witness ==
    /\ callee = "MCTS_get_available_moves"
    /\ last_move # None
    /\ last_move \in Range(ret)
    /\ \E p \in Range(ret) : p[1] = last_move[1] /\ p[2] # last_move[2]
    /\ \E p \in Range(ret) : p[2] = last_move[2] /\ p[1] # last_move[1]
    /\ Unclaimed0(ToInternal(matrix)) \ Range(ret) # {}

\* C2: move() of Random, Greedy and SafeChoice returns None exactly when the
\* legal-move set is empty and a member of the legal-move set otherwise
C2_ListStrategiesLegal ==
    callee \in {"RandomStrategy_move", "GreedyStrategy_move",
                "SafeChoiceStrategy_move"} =>
        /\ (ret = None) <=> (LegalSet(matrix, last_move) = {})
        /\ ret # None => ret \in LegalSet(matrix, last_move)

\* Greedy has chosen among several legal cells while a more valuable
\* unclaimed cell lies outside the row and column of last_move
C2_Witness ==
    /\ callee = "GreedyStrategy_move"
    /\ ret # None
    /\ Cardinality(LegalSet(matrix, last_move)) >= 2
    /\ \E p \in Unclaimed(matrix) \ LegalSet(matrix, last_move) :
           matrix[p[1]][p[2]] > matrix[ret[1]][ret[2]]

\* C4: AlphaBetaStrategy.move returns None exactly when no unclaimed cell is
\* legal for last_move, and a member of the legal-move set otherwise
C4_AlphaBetaLegal ==
    callee = "AlphaBetaStrategy_move" =>
        /\ (ret = None) <=> (LegalSet(matrix, last_move) = {})
        /\ ret # None => ret \in LegalSet(matrix, last_move)

\* the legal cells whose value no legal cell exceeds
MaxLegal(m, lm) ==
    {p \in LegalSet(m, lm) : \A q \in LegalSet(m, lm) : m[q[1]][q[2]] <= m[p[1]][p[2]]}

\* position of cell p in the row-major enumeration of an n x n board
RowMajorPos(p, n) == p[1] * n + p[2]

\* C14: GreedyStrategy.move returns a legal cell whose value is at least
\* the value of every legal cell, hence the cell of the maximal value when
\* only one cell attains it
C14_GreedyMaximal ==
    (callee = "GreedyStrategy_move" /\ LegalSet(matrix, last_move) # {}) =>
        /\ ret \in LegalSet(matrix, last_move)
        /\ \A q \in LegalSet(matrix, last_move) :
              matrix[q[1]][q[2]] <= matrix[ret[1]][ret[2]]
        /\ Cardinality(MaxLegal(matrix, last_move)) = 1 =>
              MaxLegal(matrix, last_move) = {ret}

\* Greedy has returned the only cell of maximal value among three or more
\* legal cells, and that cell is not the first one enumerated
C14_Witness ==
    /\ callee = "GreedyStrategy_move"
    /\ Cardinality(LegalSet(matrix, last_move)) >= 3
    /\ MaxLegal(matrix, last_move) = {ret}
    /\ ret # Available(matrix, last_move)[1]

\* C15 as stated: among several legal cells of maximal value Greedy
\* returns the one that comes last in row-major order
C15_GreedyTieLast ==
    (callee = "GreedyStrategy_move" /\ ret # None) =>
        \A q \in MaxLegal(matrix, last_move) :
            RowMajorPos(q, Dim(matrix)) <= RowMajorPos(ret, Dim(matrix))

\* C15 amended: among several legal cells of maximal value Greedy returns
\* the one that comes first in row-major order
C15_GreedyTieFirst ==
    (callee = "GreedyStrategy_move" /\ ret # None) =>
        /\ ret \in MaxLegal(matrix, last_move)
        /\ \A q \in MaxLegal(matrix, last_move) :
              RowMajorPos(ret, Dim(matrix)) <= RowMajorPos(q, Dim(matrix))

\* Greedy has returned one of several legal cells of maximal value
C15_Witness ==
    /\ callee = "GreedyStrategy_move"
    /\ ret # None
    /\ Cardinality(MaxLegal(matrix, last_move)) >= 2
    /\ last_move # None

----------------------------------------------------------------------------
(* SafeChoiceStrategy called on the boards of the bounded family and on   *)
(* the 3x3 boards with one more unclaimed cell                             *)

InitSafeChoice ==
    /\ matrix \in CallBoards \cup BoardsWithFree(3, MaxFree + 1)
    /\ last_move \in {None} \cup AllCells(Dim(matrix))
    /\ score = <<0, 0>>
    /\ host = "call"
    /\ current_player = 0
    /\ players = <<"none", "none">>
    /\ buttons = <<>>
    /\ timers = {}
    /\ dialogs = 0
    /\ err = "none"
    /\ result = NoResult
    /\ pc = "ready"
    /\ callee = "none"
    /\ ret = None
    /\ NoSearch

NextSafeChoice ==
    \/ CallSafeValidMoves
    \/ CallSafeChoice

SpecSafeChoice == InitSafeChoice /\ [][NextSafeChoice]_vars

\* the unclaimed cells of row i and column j other than (i, j)
Replies(m, i, j) ==
    {p \in Unclaimed(m) : (p[1] = i \/ p[2] = j) /\ p # <<i, j>>}

\* the parity feature of a line (the unclaimed cells of a row or column)
\* for candidate (i, j): +1 if, with (i, j) taken out, the cells that hold
\* the largest remaining value are even in number or none remain, else -1
ParityFeature(m, line, i, j) ==
    LET remaining == line \ {<<i, j>>}
        top == {p \in remaining : \A q \in remaining : m[q[1]][q[2]] <= m[p[1]][p[2]]}
    IN IF Cardinality(top) % 2 = 0 THEN 1 ELSE -1

\* the composite score of candidate (i, j) in units of 1/20:
\* 1.0*v - 1.0*opp_best + 0.15*ones + 0.05*a + 0.05*b
CompositeScore(m, i, j) ==
    LET v == m[i][j]
        opp_best == IF Replies(m, i, j) = {} THEN 0
                    ELSE SetMax({m[p[1]][p[2]] : p \in Replies(m, i, j)})
        a == ParityFeature(m, {p \in Unclaimed(m) : p[1] = i}, i, j)
        b == ParityFeature(m, {p \in Unclaimed(m) : p[2] = j}, i, j)
        ones == Cardinality({x \in {"a", "b"} : (IF x = "a" THEN a ELSE b) = 1})
    IN 20 * v - 20 * opp_best + 3 * ones + a + b

\* C20: SafeChoiceStrategy.move returns a legal candidate whose composite
\* score no legal candidate exceeds
C20_SafeChoiceMaximal ==
    (callee = "SafeChoiceStrategy_move" /\ LegalSet(matrix, last_move) # {}) =>
        /\ ret \in LegalSet(matrix, last_move)
        /\ \A q \in LegalSet(matrix, last_move) :
              CompositeScore(matrix, q[1], q[2]) <= CompositeScore(matrix, ret[1], ret[2])

\* SafeChoice has preferred a cell that is not of maximal value: its
\* composite score is above that of every other legal cell
C20_Witness ==
    /\ callee = "SafeChoiceStrategy_move"
    /\ Cardinality(LegalSet(matrix, last_move)) >= 3
    /\ ret \notin MaxLegal(matrix, last_move)
    /\ \A q \in LegalSet(matrix, last_move) \ {ret} :
          CompositeScore(matrix, q[1], q[2]) < CompositeScore(matrix, ret[1], ret[2])

\* the tie-break rank of candidate (i, j) among candidates of equal
\* composite score: number of +1 parity features, a, b, row, column
TieBreakRank(m, i, j) ==
    LET a == ParityFeature(m, {p \in Unclaimed(m) : p[1] = i}, i, j)
        b == ParityFeature(m, {p \in Unclaimed(m) : p[2] = j}, i, j)
        ones == (IF a = 1 THEN 1 ELSE 0) + (IF b = 1 THEN 1 ELSE 0)
    IN <<ones, a, b, i, j>>

\* C21: among the legal candidates whose composite score equals that of the
\* returned one, SafeChoiceStrategy.move returns the candidate with more +1
\* parity features, then the larger a, then the larger b and finally the
\* largest row, then the largest column
C21_SafeChoiceTieBreak ==
    (callee = "SafeChoiceStrategy_move" /\ LegalSet(matrix, last_move) # {}) =>
        /\ ret \in LegalSet(matrix, last_move)
        /\ \A q \in LegalSet(matrix, last_move) \ {ret} :
              CompositeScore(matrix, q[1], q[2]) = CompositeScore(matrix, ret[1], ret[2])
                  => TupleGreater(TieBreakRank(matrix, ret[1], ret[2]),
                                  TieBreakRank(matrix, q[1], q[2]))

\* C35: for every legal candidate (i, j) the row parity a and the column
\* parity b that SafeChoiceStrategy.move puts into the candidate's key are
\* +1 if, with the candidate taken out of the unclaimed cells of its row
\* (column), the cells holding the largest remaining value are even in
\* number or none remain, and -1 otherwise
C35_ParityFeatures ==
    callee = "SafeChoiceStrategy_move" =>
        \A p \in LegalSet(matrix, last_move) :
            LET key == SafeKey(Caches_cleared(strategy), matrix, p[1], p[2])
            IN /\ key[3] = ParityFeature(matrix, {q \in Unclaimed(matrix) : q[1] = p[1]},
                                         p[1], p[2])
               /\ key[4] = ParityFeature(matrix, {q \in Unclaimed(matrix) : q[2] = p[2]},
                                         p[1], p[2])

\* a candidate that alone holds the largest value of its row, two cells
\* tied for the second largest, and alone in its column
C35_Witness ==
    /\ callee = "SafeChoiceStrategy_move"
    /\ \E p \in LegalSet(matrix, last_move) :
          LET others == {q \in Unclaimed(matrix) : q[1] = p[1] /\ q # p}
          IN /\ Cardinality(others) = 2
             /\ \A q \in others : matrix[q[1]][q[2]] < matrix[p[1]][p[2]]
             /\ \A q, r \in others : matrix[q[1]][q[2]] = matrix[r[1]][r[2]]
             /\ {q \in Unclaimed(matrix) : q[2] = p[2]} = {p}
             /\ SafeKey(Caches_cleared(strategy), matrix, p[1], p[2])[3] = 1
             /\ SafeKey(Caches_cleared(strategy), matrix, p[1], p[2])[4] = 1

\* C8: all rule implementations compute the same legal-move set for every
\* board of non-negative values and every last_move
C8_RuleConsistency ==
    callee = "all_generators" =>
        /\ Range(ret.available) = Range(ret.sim)
        /\ Range(ret.safe) = Range(ret.sim)
        /\ Range(ret.mcts) = Range(ret.sim)
        /\ Range(ret.rollout) = Range(ret.sim)
        /\ Range(ret.ab) = Range(ret.sim)

----------------------------------------------------------------------------
(* The players of a hosted game *)

\* what Player.move may hand back to its host: the list-based strategies as
\* modelled above; "other" is any Strategy object, of whose answer the host
\* knows nothing (a cell of the board or None)
StrategyReturns(kind, m, lm) ==
    CASE kind = "random" -> RandomStrategy_move(m, lm)
      [] kind = "greedy" -> {GreedyStrategy_move(m, lm)}
      [] kind = "safe_choice" -> {SafeChoiceStrategy_move(m, lm)}
      [] OTHER -> AllCells(Dim(m)) \cup {None}

----------------------------------------------------------------------------
(* SimulationEngine.run_game *)

\* the loop body without "switch players"
RunGameApplied_noswitch(m, sc, cp, mv) ==
    [matrix |-> [m EXCEPT ![mv[1]][mv[2]] = Dash],
     score |-> [sc EXCEPT ![cp + 1] = @ + m[mv[1]][mv[2]]],
     last_move |-> mv,
     current_player |-> cp]

\* the loop body with "=" for "+=" on the score
RunGameApplied_assign(m, sc, cp, mv) ==
    [matrix |-> [m EXCEPT ![mv[1]][mv[2]] = Dash],
     score |-> [sc EXCEPT ![cp + 1] = m[mv[1]][mv[2]]],
     last_move |-> mv,
     current_player |-> 1 - cp]

\* the loop body that neither credits the value nor marks the cell
RunGameApplied_skip(m, sc, cp, mv) ==
    [matrix |-> m, score |-> sc, last_move |-> mv, current_player |-> 1 - cp]

\* the state after run_game's loop body has applied move mv
RunGameApplied(m, sc, cp, mv) ==
    LET value == m[mv[1]][mv[2]]
    IN [matrix |-> [m EXCEPT ![mv[1]][mv[2]] = Dash],
        score |-> [sc EXCEPT ![cp + 1] = @ + value],
        last_move |-> mv,
        current_player |-> 1 - cp]

\* the legality check placed after the cell has been marked
RunGameRejected_marked(m, sc, cp, lm, mv) ==
    [matrix |-> IF mv = None THEN m ELSE [m EXCEPT ![mv[1]][mv[2]] = Dash],
     score |-> sc, last_move |-> lm, current_player |-> cp]

\* what run_game has written when it raises ValueError for move mv: nothing
RunGameRejected(m, sc, cp, lm, mv) ==
    [matrix |-> m, score |-> sc, last_move |-> lm, current_player |-> cp]

\* the winner test with ">=" for ">"
RunGameResult_geq(sc) ==
    [p1_score |-> sc[1], p2_score |-> sc[2],
     winner |-> IF sc[1] >= sc[2] THEN "P1"
                ELSE IF sc[2] > sc[1] THEN "P2" ELSE "Tie"]

\* the dictionary run_game returns
RunGameResult(sc) ==
    [p1_score |-> sc[1], p2_score |-> sc[2],
     winner |-> IF sc[1] > sc[2] THEN "P1"
                ELSE IF sc[2] > sc[1] THEN "P2" ELSE "Tie"]

SetGame(st) ==
    /\ matrix' = st.matrix
    /\ score' = st.score
    /\ last_move' = st.last_move
    /\ current_player' = st.current_player

\* one loop iteration: no move is available, run_game leaves the loop
RunGameBreak ==
    /\ host = "SimulationEngine"
    /\ pc = "running"
    /\ Sim_get_available_moves(matrix, Dim(matrix), last_move) = <<>>
    /\ pc' = "returned"
    /\ result' = RunGameResult(score)
    /\ callee' = "run_game"
    /\ ret' = None
    /\ UNCHANGED <<searchVars, host, strategy, gameVars, players, guiVars, err>>

\* one loop iteration: the strategy's move is not in available_moves
RunGameRaise ==
    /\ host = "SimulationEngine"
    /\ pc = "running"
    /\ LET available_moves == Sim_get_available_moves(matrix, Dim(matrix), last_move)
       IN /\ available_moves # <<>>
          /\ \E mv \in StrategyReturns(players[current_player + 1], matrix, last_move) :
                /\ mv \notin Range(available_moves)
                /\ SetGame(RunGameRejected(matrix, score, current_player, last_move, mv))
                /\ ret' = mv
    /\ pc' = "raised"
    /\ err' = "ValueError"
    /\ callee' = "run_game"
    /\ UNCHANGED <<searchVars, host, strategy, players, guiVars, result>>

\* one loop iteration: the strategy's move is applied
RunGameApply ==
    /\ host = "SimulationEngine"
    /\ pc = "running"
    /\ LET available_moves == Sim_get_available_moves(matrix, Dim(matrix), last_move)
       IN /\ available_moves # <<>>
          /\ \E mv \in StrategyReturns(players[current_player + 1], matrix, last_move) :
                /\ mv \in Range(available_moves)
                /\ SetGame(RunGameApplied(matrix, score, current_player, mv))
                /\ ret' = mv
    /\ callee' = "run_game"
    /\ UNCHANGED <<searchVars, host, strategy, players, guiVars, err, result, pc>>

----------------------------------------------------------------------------
(* GameHandler and the Board's buttons *)

AllDisabled(n) == [r \in 0..(n - 1) |-> [c \in 0..(n - 1) |-> "disabled"]]

AllNormal(n) == [r \in 0..(n - 1) |-> [c \in 0..(n - 1) |-> "normal"]]

\* Board.update_active_buttons
UpdateActiveButtons(m, active_row, active_col) ==
    [r \in DOMAIN m |-> [c \in DOMAIN m[r] |->
        IF m[r][c] = Dash THEN "disabled"
        ELSE IF r = active_row \/ c = active_col THEN "normal"
        ELSE "disabled"]]

\* GameHandler.has_any_legal_moves
HasAnyLegalMoves(btns) ==
    \E r \in DOMAIN btns : \E c \in DOMAIN btns[r] : btns[r][c] = "normal"

\* the GameHandler's fields as one record
GH == [matrix |-> matrix, score |-> score, last_move |-> last_move,
       current_player |-> current_player, buttons |-> buttons,
       timers |-> timers, dialogs |-> dialogs, err |-> "none"]

SetGH(st) ==
    /\ SetGame(st)
    /\ buttons' = st.buttons
    /\ timers' = st.timers
    /\ dialogs' = st.dialogs
    /\ err' = st.err

\* GameHandler.end_game_and_announce
EndGameAndAnnounce(st) ==
    [st EXCEPT !.buttons = AllDisabled(Dim(st.matrix)), !.dialogs = @ + 1]

\* a click that schedules the computer's move and leaves the buttons of the
\* last move's row and column enabled
HandleCellClick_enabled(st, plrs, row, col) ==
    IF st.matrix[row][col] = Dash
    THEN [st EXCEPT !.err = "TypeError"]
    ELSE LET m1 == [st.matrix EXCEPT ![row][col] = Dash]
             next == IF st.current_player = 0 THEN 1 ELSE 0
             st1 == [st EXCEPT
                        !.score[st.current_player + 1] = @ + st.matrix[row][col],
                        !.matrix = m1,
                        !.last_move = <<row, col>>,
                        !.current_player = next,
                        !.buttons = UpdateActiveButtons(m1, row, col)]
         IN IF ~HasAnyLegalMoves(st1.buttons)
            THEN [st1 EXCEPT !.timers = @ \cup {"end_game_and_announce"}]
            ELSE IF plrs[next + 1] # "human"
                 THEN [st1 EXCEPT !.timers = @ \cup {"computer_turn"}]
                 ELSE st1

\* a click that marks the cell and hands the turn over without crediting it
HandleCellClick_uncredited(st, plrs, row, col) ==
    IF st.matrix[row][col] = Dash
    THEN [st EXCEPT !.err = "TypeError"]
    ELSE LET m1 == [st.matrix EXCEPT ![row][col] = Dash]
             next == IF st.current_player = 0 THEN 1 ELSE 0
         IN [st EXCEPT !.matrix = m1,
                       !.last_move = <<row, col>>,
                       !.current_player = next,
                       !.buttons = UpdateActiveButtons(m1, row, col)]

\* GameHandler.handle_cell_click: adding the '-' of a claimed cell to the
\* score raises TypeError before anything is written
HandleCellClick(st, plrs, row, col) ==
    IF st.matrix[row][col] = Dash
    THEN [st EXCEPT !.err = "TypeError"]
    ELSE LET m1 == [st.matrix EXCEPT ![row][col] = Dash]
             next == IF st.current_player = 0 THEN 1 ELSE 0
             st1 == [st EXCEPT
                        !.score[st.current_player + 1] = @ + st.matrix[row][col],
                        !.matrix = m1,
                        !.last_move = <<row, col>>,
                        !.current_player = next,
                        !.buttons = UpdateActiveButtons(m1, row, col)]
         IN IF ~HasAnyLegalMoves(st1.buttons)
            THEN [st1 EXCEPT !.timers = @ \cup {"end_game_and_announce"}]
            ELSE IF plrs[next + 1] # "human"
                 THEN [st1 EXCEPT !.buttons = AllDisabled(Dim(m1)),
                                  !.timers = @ \cup {"computer_turn"}]
                 ELSE st1

\* GameHandler.computer_turn, the strategy having returned move_result
ComputerTurn(st, plrs, move_result) ==
    IF move_result = None
    THEN EndGameAndAnnounce(st)
    ELSE HandleCellClick(st, plrs, move_result[1], move_result[2])

\* GameHandler.play with a computer as player 1: its turn runs at once
PlayComputerFirst ==
    /\ host = "GameHandler"
    /\ pc = "constructed"
    /\ players[1] # "human"
    /\ \E mv \in StrategyReturns(players[1], matrix, last_move) :
          /\ SetGH(ComputerTurn(GH, players, mv))
          /\ ret' = mv
          /\ callee' = IF mv = None THEN "computer_turn" ELSE "handle_cell_click"
    /\ pc' = "mainloop"
    /\ UNCHANGED <<searchVars, host, strategy, players, result>>

\* GameHandler.play with a human as player 1: the window opens
PlayHumanFirst ==
    /\ host = "GameHandler"
    /\ pc = "constructed"
    /\ players[1] = "human"
    /\ pc' = "mainloop"
    /\ callee' = "play"
    /\ ret' = None
    /\ UNCHANGED <<searchVars, host, strategy, gameVars, players, guiVars, err, result>>

\* Board.cell_clicked: the user presses an enabled button
CellClicked ==
    /\ host = "GameHandler"
    /\ pc = "mainloop"
    /\ \E row \in DOMAIN buttons : \E col \in DOMAIN buttons[row] :
          /\ buttons[row][col] = "normal"
          /\ SetGH(HandleCellClick(GH, players, row, col))
          /\ ret' = <<row, col>>
    /\ callee' = "handle_cell_click"
    /\ UNCHANGED <<searchVars, host, strategy, players, result, pc>>

\* the scheduled computer_turn runs
ComputerTurnTimer ==
    /\ host = "GameHandler"
    /\ pc = "mainloop"
    /\ "computer_turn" \in timers
    /\ \E mv \in StrategyReturns(players[current_player + 1], matrix, last_move) :
          /\ SetGH(ComputerTurn([GH EXCEPT !.timers = @ \ {"computer_turn"}],
                                players, mv))
          /\ ret' = mv
          /\ callee' = IF mv = None THEN "computer_turn" ELSE "handle_cell_click"
    /\ UNCHANGED <<searchVars, host, strategy, players, result, pc>>

\* the scheduled end_game_and_announce runs
EndGameTimer ==
    /\ host = "GameHandler"
    /\ pc = "mainloop"
    /\ "end_game_and_announce" \in timers
    /\ SetGH(EndGameAndAnnounce([GH EXCEPT !.timers = @ \ {"end_game_and_announce"}]))
    /\ callee' = "end_game_and_announce"
    /\ ret' = None
    /\ UNCHANGED <<searchVars, host, strategy, players, result, pc>>

----------------------------------------------------------------------------
(* Hosted games on the bounded family of boards *)

\* every full n x n board
FullBoards(n) == [0..(n - 1) -> [0..(n - 1) -> CellVals]]

\* the 3x3 board of the design's alpha-beta test
Board3 == <<<<2, 4, 6>>, <<3, 5, 7>>, <<5, 1, 3>>>>

\* a tuple of tuples as a 0-indexed board
FromRows(rows) ==
    [r \in 0..(Len(rows) - 1) |-> [c \in 0..(Len(rows[r + 1]) - 1) |->
        rows[r + 1][c + 1]]]

SimBoards == FullBoards(1) \cup FullBoards(2) \cup {FromRows(Board3)}

SimPlayers == {<<"other", "other">>, <<"greedy", "random">>,
               <<"safe_choice", "greedy">>, <<"random", "safe_choice">>}

GuiBoards == FullBoards(1) \cup FullBoards(2)

GuiPlayers == {<<"human", "human">>, <<"human", "other">>,
               <<"other", "human">>, <<"other", "other">>,
               <<"greedy", "human">>}

InitSim ==
    /\ host = "SimulationEngine"
    /\ matrix \in SimBoards
    /\ players \in SimPlayers
    /\ buttons = <<>>
    /\ pc = "running"

InitGui ==
    /\ host = "GameHandler"
    /\ matrix \in GuiBoards
    /\ players \in GuiPlayers
    /\ buttons = AllNormal(Dim(matrix))
    /\ pc = "constructed"

InitGame ==
    /\ InitSim \/ InitGui
    /\ last_move = None
    /\ score = <<0, 0>>
    /\ current_player = 0
    /\ timers = {}
    /\ dialogs = 0
    /\ err = "none"
    /\ result = NoResult
    /\ callee = "none"
    /\ ret = None
    /\ NoSearch

NextGame ==
    \/ RunGameBreak
    \/ RunGameRaise
    \/ RunGameApply
    \/ PlayComputerFirst
    \/ PlayHumanFirst
    \/ CellClicked
    \/ ComputerTurnTimer
    \/ EndGameTimer

SpecGame == InitGame /\ [][NextGame]_vars

----------------------------------------------------------------------------
(* Claims about the hosts (SpecGame) *)

\* a step in which a host was handed move ret'
Handed == callee' \in {"run_game", "handle_cell_click"} /\ ret' # None

\* C5: applying a legal move adds the cell's value to the mover's score,
\* marks exactly that cell claimed, sets last_move to it and flips the
\* player to move; the other score and every other cell are unchanged
C5_ApplyFrame ==
    [][(Handed /\ ret' \in LegalSet(matrix, last_move)) =>
          /\ score'[current_player + 1]
                = score[current_player + 1] + matrix[ret'[1]][ret'[2]]
          /\ score'[2 - current_player] = score[2 - current_player]
          /\ matrix' = [matrix EXCEPT ![ret'[1]][ret'[2]] = Dash]
          /\ last_move' = ret'
          /\ current_player' = 1 - current_player]_vars

\* player 2 has just had a legal move applied by the simulation, both
\* players have scored and unclaimed cells remain
C5_Witness ==
    /\ host = "SimulationEngine"
    /\ callee = "run_game"
    /\ pc = "running"
    /\ current_player = 0
    /\ score[1] > 0
    /\ score[2] > 0
    /\ last_move # None
    /\ Cardinality(Unclaimed(matrix)) >= 2

\* C6: handle_cell_click rejects with an error every coordinate outside
\* the legal-move set and then leaves scores, board, last_move and the
\* player to move unchanged
C6_IllegalClickRejected ==
    [][(callee' = "handle_cell_click" /\ ret' \notin LegalSet(matrix, last_move)) =>
          (err' # "none" /\ UNCHANGED gameVars)]_vars

\* C7: run_game raises whenever the strategy's answer is outside the legal
\* set while legal moves exist, and raises with board, scores, last_move
\* and current_player as they were before the strategy was asked
C7_IllegalMoveRaises ==
    [][/\ (/\ host = "SimulationEngine"
           /\ callee' = "run_game"
           /\ LegalSet(matrix, last_move) # {}
           /\ ret' \notin LegalSet(matrix, last_move)) =>
              (pc' = "raised" /\ err' = "ValueError")
       /\ pc' = "raised" => UNCHANGED gameVars]_vars

\* run_game has raised, in mid-game, for an unclaimed cell outside the
\* row and column of the last move
C7_Witness ==
    /\ pc = "raised"
    /\ last_move # None
    /\ ret \in Unclaimed(matrix)
    /\ score[1] > 0

\* C10: both scores are non-negative and never decrease, a claimed cell
\* stays claimed, and the player to move is one of the two players
C10_GameInvariants ==
    /\ [](/\ score[1] >= 0
          /\ score[2] >= 0
          /\ current_player \in {0, 1})
    /\ [][/\ score'[1] >= score[1]
          /\ score'[2] >= score[2]
          /\ \A p \in AllCells(Dim(matrix)) :
                matrix[p[1]][p[2]] = Dash => matrix'[p[1]][p[2]] = Dash]_vars

\* a game in which both players have claimed cells of positive value and
\* the second player is to move again
C10_Witness ==
    /\ host = "GameHandler"
    /\ score[1] > 0
    /\ score[2] > 0
    /\ current_player = 1
    /\ Cardinality(AllCells(Dim(matrix)) \ Unclaimed(matrix)) >= 3

\* the sum of the values of the given cells of board m
RECURSIVE ValueSum(_, _)
ValueSum(m, cells) ==
    IF cells = {}
    THEN 0
    ELSE LET p == CHOOSE q \in cells : TRUE
         IN m[p[1]][p[2]] + ValueSum(m, cells \ {p})

\* C32: a game starts with no cell claimed and no score, and every step
\* keeps the two scores plus the values of the unclaimed cells equal: at
\* any time the scores add up to the initial values of the claimed cells
C32_ScoreConservation ==
    /\ (Unclaimed(matrix) = AllCells(Dim(matrix)) /\ score[1] + score[2] = 0)
    /\ [][score'[1] + score'[2] + ValueSum(matrix', Unclaimed(matrix'))
            = score[1] + score[2] + ValueSum(matrix, Unclaimed(matrix))]_vars

\* an interactive game in which both players have scored and a cell of
\* positive value is still unclaimed
C32_Witness ==
    /\ host = "GameHandler"
    /\ callee = "handle_cell_click"
    /\ score[1] > 0
    /\ score[2] > 0
    /\ ValueSum(matrix, Unclaimed(matrix)) > 0

----------------------------------------------------------------------------
(* SimulationEngine.run_game alone: the games of SimBoards, and the 4x4    *)
(* board of the design's end-to-end scenario played by two Greedy players *)

\* the 4x4 board of the design's end-to-end test
Board4 == <<<<1, 5, 7, 2>>, <<3, 6, 9, 8>>, <<4, 4, 2, 1>>, <<9, 6, 3, 6>>>>

Board4Players == {<<"greedy", "greedy">>}

InitRunGame ==
    /\ host = "SimulationEngine"
    /\ \/ matrix \in SimBoards /\ players \in SimPlayers
       \/ matrix = FromRows(Board4) /\ players \in Board4Players
    /\ buttons = <<>>
    /\ pc = "running"
    /\ last_move = None
    /\ score = <<0, 0>>
    /\ current_player = 0
    /\ timers = {}
    /\ dialogs = 0
    /\ err = "none"
    /\ result = NoResult
    /\ callee = "none"
    /\ ret = None
    /\ NoSearch

NextRunGame ==
    \/ RunGameBreak
    \/ RunGameRaise
    \/ RunGameApply

SpecSim == InitRunGame /\ [][NextRunGame]_vars

\* run_game is a loop without waiting: an iteration that can run does run.
\* The games with a SafeChoice player are left to the "other" players, whose
\* answers include every answer of SafeChoice.
InitRunGameFair ==
    /\ InitRunGame
    /\ players[1] # "safe_choice"
    /\ players[2] # "safe_choice"

SpecSimFair == InitRunGameFair /\ [][NextRunGame]_vars /\ WF_vars(NextRunGame)

\* C11: a run of run_game in which no strategy answer is rejected comes to
\* its return, and every loop iteration that goes on claims exactly one
\* cell that was unclaimed and leaves every other cell as it was
C11_RunGameTerminates ==
    /\ <>(pc = "returned" \/ err # "none")
    /\ [][(callee' = "run_game" /\ pc' = "running") =>
             \E p \in Unclaimed(matrix) :
                /\ matrix' = [matrix EXCEPT ![p[1]][p[2]] = Dash]
                /\ Cardinality(Unclaimed(matrix')) = Cardinality(Unclaimed(matrix)) - 1]_vars

\* a game on the 3x3 board has returned after all N*N = 9 cells were claimed
C11_Witness ==
    /\ host = "SimulationEngine"
    /\ pc = "returned"
    /\ Dim(matrix) = 3
    /\ Unclaimed(matrix) = {}

\* C12: run_game returns in the first state whose mover has no legal cell
\* and in no state whose mover has one, and the winner it reports is P1,
\* P2 or Tie as p1_score is greater than, less than or equal to p2_score
C12_StopsAtDeadEnd ==
    /\ [](pc = "returned" =>
             /\ LegalSet(matrix, last_move) = {}
             /\ result.p1_score = score[1]
             /\ result.p2_score = score[2]
             /\ (result.winner = "P1") <=> (score[1] > score[2])
             /\ (result.winner = "P2") <=> (score[2] > score[1])
             /\ (result.winner = "Tie") <=> (score[1] = score[2]))
    /\ [][(pc = "running" /\ LegalSet(matrix, last_move) = {}) =>
             (pc' = "returned" /\ UNCHANGED gameVars)]_vars
    /\ [][(pc = "running" /\ LegalSet(matrix, last_move) # {}) =>
             pc' # "returned"]_vars

\* a game has ended with unclaimed cells left on the board, won by P2
C12_Witness ==
    /\ pc = "returned"
    /\ Unclaimed(matrix) # {}
    /\ result.winner = "P2"
    /\ last_move # None

\* the game of the scenario: two Greedy players on Board4
ScenarioGame ==
    /\ Dim(matrix) = 4
    /\ players = <<"greedy", "greedy">>

ClaimedCount == Cardinality(AllCells(Dim(matrix)) \ Unclaimed(matrix))

\* C13: on Board4 with two Greedy players the first move is (1,2) for 9
\* points, the second player's legal set is then the unclaimed cells of
\* row 1 and column 2, the second move is (1,3) for 8 points and the
\* scores after two moves are 9 and 8
C13_Scenario ==
    ScenarioGame =>
        /\ ClaimedCount = 1 =>
              /\ last_move = <<1, 2>>
              /\ score = <<9, 0>>
              /\ current_player = 1
              /\ Range(Sim_get_available_moves(matrix, Dim(matrix), last_move))
                    = {<<1, 0>>, <<1, 1>>, <<1, 3>>, <<0, 2>>, <<2, 2>>, <<3, 2>>}
        /\ ClaimedCount = 2 =>
              /\ last_move = <<1, 3>>
              /\ matrix[1][2] = Dash
              /\ score = <<9, 8>>

\* the second move of the scenario has been applied
C13_Witness ==
    /\ ScenarioGame
    /\ ClaimedCount = 2
    /\ pc = "running"
    /\ callee = "run_game"
    /\ ret = <<1, 3>>

\* C38: in the GameHandler, while a scheduled computer_turn is pending every
\* button is disabled; the only step that changes the game before it runs
\* is the computer's own move, on a cell no click could have reached; and
\* every move is credited to the player whose turn it is
C38_NoClickWhileScheduled ==
    /\ []((host = "GameHandler" /\ "computer_turn" \in timers) =>
             buttons = AllDisabled(Dim(matrix)))
    /\ [][(host = "GameHandler" /\ "computer_turn" \in timers
           /\ <<matrix, last_move, score, current_player>>'
                 # <<matrix, last_move, score, current_player>>) =>
             /\ players[current_player + 1] # "human"
             /\ buttons[ret'[1]][ret'[2]] = "disabled"]_vars
    /\ [][(host = "GameHandler"
           /\ <<matrix, last_move, score, current_player>>'
                 # <<matrix, last_move, score, current_player>>) =>
             /\ score' = [score EXCEPT ![current_player + 1] =
                                          @ + matrix[ret'[1]][ret'[2]]]
             /\ last_move' = ret'
             /\ current_player' = 1 - current_player]_vars

\* a human has moved, the computer's move is scheduled and a cell the
\* human could otherwise click is still unclaimed
C38_Witness ==
    /\ host = "GameHandler"
    /\ "computer_turn" \in timers
    /\ players[2 - current_player] = "human"
    /\ players[current_player + 1] # "human"
    /\ LegalSet(matrix, last_move) # {}
    /\ score[1] + score[2] > 0

\* the unclaimed cells of the board all hold positive values
PositiveBoard(m) == \A p \in Unclaimed(m) : m[p[1]][p[2]] > 0

\* C33: in a game on a board of positive values the player id that
\* MCTSStrategy.move and AlphaBetaStrategy.move infer from the parity of the
\* claimed cells is the player whose turn it is
C33_InferredPlayerIsMover ==
    (host \in {"SimulationEngine", "GameHandler"} /\ PositiveBoard(matrix)) =>
        PlayerIdOf(ToInternal(matrix)) = current_player + 1

\* the second player, a strategy other than the three simple ones, is to
\* move on a board of positive values with a legal move left
C33_Witness ==
    /\ host \in {"SimulationEngine", "GameHandler"}
    /\ current_player = 1
    /\ players[2] = "other"
    /\ PositiveBoard(matrix)
    /\ LegalSet(matrix, last_move) # {}
    /\ Cardinality(AllCells(Dim(matrix)) \ Unclaimed(matrix)) = 3

----------------------------------------------------------------------------
(* AlphaBetaStrategy called on small boards of positive values: the       *)
(* boards of the bounded family, and every position of a game on Board3   *)

\* brute-force minimax: the best final score difference, the mover's gains
\* minus the opponent's, that the player to move can secure from here
RECURSIVE Minimax(_, _)
Minimax(m, lm) ==
    IF LegalSet(m, lm) = {}
    THEN 0
    ELSE SetMax({m[p[1]][p[2]] - Minimax([m EXCEPT ![p[1]][p[2]] = Dash], p) :
                    p \in LegalSet(m, lm)})

\* the moves that brute-force minimax judges optimal
OptimalMoves(m, lm) ==
    {p \in LegalSet(m, lm) :
        m[p[1]][p[2]] - Minimax([m EXCEPT ![p[1]][p[2]] = Dash], p) = Minimax(m, lm)}

\* Board3 with the cells of claimed taken
Board3With(claimed) ==
    [r \in 0..2 |-> [c \in 0..2 |->
        IF <<r, c>> \in claimed THEN Dash ELSE Board3[r + 1][c + 1]]]

InitAlphaBeta ==
    /\ \/ /\ matrix \in {b \in CallBoards : PositiveBoard(b)}
          /\ last_move \in {None} \cup AllCells(Dim(matrix))
       \/ \E claimed \in SUBSET AllCells(3) :
             /\ matrix = Board3With(claimed)
             /\ last_move \in IF claimed = {} THEN {None} ELSE claimed
    /\ score \in CallScores
    /\ host = "call"
    /\ current_player = 0
    /\ players = <<"none", "none">>
    /\ buttons = <<>>
    /\ timers = {}
    /\ dialogs = 0
    /\ err = "none"
    /\ result = NoResult
    /\ pc = "ready"
    /\ callee = "none"
    /\ ret = None
    /\ NoSearch

CallDynamicDepth ==
    Returned("_dynamic_depth", Dynamic_depth_self(strategy, ToInternal(matrix)))

NextAlphaBeta ==
    \/ CallAlphaBeta
    \/ CallDynamicDepth

SpecAlphaBeta == InitAlphaBeta /\ [][NextAlphaBeta]_vars

\* C16: on a board of dimension at most 3 with positive values the depth
\* AlphaBetaStrategy picks covers every remaining ply, and the move it
\* returns is one that brute-force minimax over the final score difference
\* judges optimal
C16_AlphaBetaOptimal ==
    /\ callee = "_dynamic_depth" => ret >= Cardinality(Unclaimed(matrix))
    /\ (callee = "AlphaBetaStrategy_move" /\ LegalSet(matrix, last_move) # {}) =>
          ret \in OptimalMoves(matrix, last_move)

\* alpha-beta has answered on the full Board3 with an optimal move, where
\* neither every move nor the greedy move is optimal
C16_Witness ==
    /\ callee = "AlphaBetaStrategy_move"
    /\ matrix = FromRows(Board3)
    /\ last_move = None
    /\ ret \in OptimalMoves(matrix, last_move)
    /\ GreedyStrategy_move(matrix, last_move) \notin OptimalMoves(matrix, last_move)

----------------------------------------------------------------------------
(* _dynamic_depth of AlphaBetaStrategy objects constructed with a node    *)
(* budget and a depth cap, on boards of every dimension up to MaxDim      *)

MaxDim == 5

\* the max_nodes_budget and hard_depth_cap arguments a caller constructs
\* AlphaBetaStrategy with
NodeBudgets == {1, 50, 59049, max_nodes_budget}
DepthCaps == {1, 3, hard_depth_cap}

\* the n x n board of ones whose first k cells in row-major order are taken
PrefixTaken(n, k) ==
    [r \in 0..(n - 1) |-> [c \in 0..(n - 1) |-> IF r * n + c < k THEN Dash ELSE 1]]

DepthBoards == {PrefixTaken(n, k) : n \in 1..MaxDim, k \in 0..(MaxDim * MaxDim)}

InitDepth ==
    /\ matrix \in DepthBoards
    /\ last_move \in {None, <<0, 0>>}
    /\ score = <<0, 0>>
    /\ host = "call"
    /\ current_player = 0
    /\ players = <<"none", "none">>
    /\ buttons = <<>>
    /\ timers = {}
    /\ dialogs = 0
    /\ err = "none"
    /\ result = NoResult
    /\ pc = "ready"
    /\ callee = "none"
    /\ ret = None
    /\ heap = <<>>
    /\ nodes = <<>>
    /\ cur_node = 0
    /\ iterations = 0
    /\ sim_result = 0
    /\ total_sum = 1
    /\ max_iterations = default_max_iterations
    /\ \E budget \in NodeBudgets, cap \in DepthCaps :
          strategy = Strategy_init(budget, cap)

NextDepth == CallDynamicDepth

SpecDepth == InitDepth /\ [][NextDepth]_vars

\* the depth of the design: all remaining cells for N <= 3; otherwise the
\* largest d with b^d <= budget for b = clamp(2N - 1, 2, 10), clamped to the
\* remaining cells and to the cap, and for N = 4 one ply more, still at
\* most the remaining cells
DesignDepth(n, remaining, budget, cap) ==
    LET b == Max2(2, Min2(2 * n - 1, 10))
        d == CHOOSE e \in 0..budget : Pow(b, e) <= budget /\ Pow(b, e + 1) > budget
        clamped == Min2(Min2(d, remaining), cap)
    IN IF n <= 3 THEN remaining
       ELSE IF n = 4 THEN Min2(clamped + 1, remaining)
       ELSE clamped

\* C37: _dynamic_depth returns the depth of the design for the board's
\* dimension and unclaimed cells and the object's budget and cap; with the
\* defaults and a full board that is 6 for N = 4, 5 for N = 5 and 4 for
\* N >= 6
C37_DepthFormula ==
    callee = "_dynamic_depth" =>
        /\ ret = DesignDepth(Dim(matrix), Cardinality(Unclaimed(matrix)),
                             strategy.max_nodes_budget, strategy.hard_depth_cap)
        /\ (strategy = DefaultStrategy /\ Unclaimed(matrix) = AllCells(Dim(matrix))
            /\ Dim(matrix) >= 4) =>
               ret = (IF Dim(matrix) = 4 THEN 6 ELSE IF Dim(matrix) = 5 THEN 5 ELSE 4)

\* C22: on a board with an unclaimed cell the depth _dynamic_depth returns
\* exceeds neither the object's hard_depth_cap nor the number of unclaimed
\* cells, whatever the dimension, the node budget and the cap
C22_DepthWithinCaps ==
    (callee = "_dynamic_depth" /\ Unclaimed(matrix) # {}) =>
        /\ ret <= strategy.hard_depth_cap
        /\ ret <= Cardinality(Unclaimed(matrix))

----------------------------------------------------------------------------
(* alpha_beta called with the full window on a node: nodes[1] is the node *)
(* with the depth it is searched to, strategy.player_id the root player   *)

MaxDepth == 4

\* the node object nodes[n] with its board
AB_node_at(h, ns, n) ==
    ABNode(h[ns[n].board], ns[n].last_move, ns[n].player_id, ns[n].move, ns[n].scores)

InitPrune ==
    /\ \E claimed \in SUBSET AllCells(3) :
          /\ matrix = Board3With(claimed)
          /\ last_move \in IF claimed = {} THEN {None} ELSE claimed
    /\ score = <<0, 0>>
    /\ host = "call"
    /\ current_player = 0
    /\ players = <<"none", "none">>
    /\ buttons = <<>>
    /\ timers = {}
    /\ dialogs = 0
    /\ err = "none"
    /\ result = NoResult
    /\ pc = "ready"
    /\ callee = "none"
    /\ ret = None
    /\ heap = <<ToInternal(matrix)>>
    /\ \E player_id \in {1, 2}, depth \in 0..MaxDepth :
          nodes = <<[board |-> 1, last_move |-> last_move, player_id |-> player_id,
                     parent |-> 0, move |-> None, scores |-> score,
                     children |-> <<>>, depth |-> depth]>>
    /\ cur_node = 0
    /\ iterations = 0
    /\ sim_result = 0
    /\ total_sum = 1
    /\ max_iterations = default_max_iterations
    /\ \E root_pid \in {1, 2} : strategy = Player_id_set(DefaultStrategy, root_pid)

\* self.alpha_beta(node, depth, -math.inf, math.inf, True)
CallAlphaBetaMax ==
    Returned("alpha_beta_max",
             Alpha_beta(AB_node_at(heap, nodes, 1), nodes[1].depth, MinusInf, PlusInf,
                        TRUE, strategy.player_id))

\* self.alpha_beta(node, depth, -math.inf, math.inf, False)
CallAlphaBetaMin ==
    Returned("alpha_beta_min",
             Alpha_beta(AB_node_at(heap, nodes, 1), nodes[1].depth, MinusInf, PlusInf,
                        FALSE, strategy.player_id))

NextPrune ==
    \/ CallAlphaBetaMax
    \/ CallAlphaBetaMin

SpecPrune == InitPrune /\ [][NextPrune]_vars

\* depth-limited minimax over all children in any order, without a window,
\* with the static evaluation of the strategy at the leaves
RECURSIVE Plain_minimax(_, _, _, _)
Plain_minimax(node, depth, maximizing_player, root_pid) ==
    IF depth = 0 \/ AB_is_terminal(node)
    THEN AB_evaluate(node, root_pid)
    ELSE LET vals == {Plain_minimax(c, depth - 1, ~maximizing_player, root_pid) :
                         c \in Range(AB_generate_children(node))}
         IN IF maximizing_player
            THEN CHOOSE v \in vals : \A w \in vals : w <= v
            ELSE CHOOSE v \in vals : \A w \in vals : v <= w

\* C25: alpha_beta called with the window (-inf, +inf) returns the value of
\* the plain depth-limited minimax of the same node, depth, kind of node
\* and root player
C25_PruningKeepsValue ==
    /\ callee = "alpha_beta_max" =>
          ret = Plain_minimax(AB_node_at(heap, nodes, 1), nodes[1].depth, TRUE,
                              strategy.player_id)
    /\ callee = "alpha_beta_min" =>
          ret = Plain_minimax(AB_node_at(heap, nodes, 1), nodes[1].depth, FALSE,
                              strategy.player_id)

\* a search to depth 2 from a MAX node in which the sort has reordered the
\* children and the loop over the second child's children was cut: its
\* first child already evaluates no higher than the value of the first
\* child, and it has further children
C25_Witness ==
    /\ callee = "alpha_beta_max"
    /\ nodes[1].depth = 2
    /\ LET root_pid == strategy.player_id
           children == AB_generate_children(AB_node_at(heap, nodes, 1))
           sorted == StableSort(children,
                                [k \in 1..Len(children) |-> children[k].scores[root_pid]],
                                TRUE)
       IN /\ Len(children) >= 2
          /\ sorted # children
          /\ LET second == AB_generate_children(sorted[2])
                 ordered == StableSort(second,
                                       [k \in 1..Len(second) |-> second[k].scores[root_pid]],
                                       FALSE)
             IN /\ Len(second) >= 2
                /\ AB_evaluate(ordered[1], root_pid)
                      <= Plain_minimax(sorted[1], 1, FALSE, root_pid)
                /\ \E k \in 2..Len(second) :
                      AB_evaluate(ordered[k], root_pid) < AB_evaluate(ordered[1], root_pid)

----------------------------------------------------------------------------
(* One strategy object asked repeatedly.  matrix, last_move and score are *)
(* the position a caller asks about more than once and ret is the answer  *)
(* to it; between two such calls the same object decides other positions, *)
(* whose answers the caller does not keep.                                 *)

MaxOther == 2

\* the positions decided in between: the position after one more cell of
\* the board was taken, which the other player is to move in, with the
\* scores as they are or exchanged
OtherPositions(m, sc) ==
    {[matrix |-> [m EXCEPT ![p[1]][p[2]] = Dash], last_move |-> p, score |-> s] :
        p \in Unclaimed(m), s \in {sc, <<sc[2], sc[1]>>}}

\* object.move(matrix, last_move, score): answer kept in ret
Asked(name, r) ==
    /\ callee \in {"none", name}
    /\ pc' = "returned"
    /\ callee' = name
    /\ ret' = r.ret
    /\ strategy' = r.self
    /\ UNCHANGED <<searchVars, host, gameVars, players, guiVars, err, result>>

\* object.move(other position) after the first answer: only the object changes
AskedOther(name, r) ==
    /\ callee = name
    /\ iterations < MaxOther
    /\ iterations' = iterations + 1
    /\ pc' = "between"
    /\ strategy' = r.self
    /\ UNCHANGED <<host, gameVars, players, guiVars, err, result, callee, ret,
                   heap, nodes, cur_node, sim_result, total_sum, max_iterations>>

AskGreedy ==
    Asked("GreedyStrategy_move",
          [ret |-> GreedyStrategy_move(matrix, last_move), self |-> strategy])

AskSafeChoice ==
    Asked("SafeChoiceStrategy_move",
          SafeChoiceStrategy_move_self(strategy, matrix, last_move))

AskAlphaBeta ==
    Asked("AlphaBetaStrategy_move",
          AlphaBetaStrategy_move_self(strategy, matrix, last_move, score))

AskGreedyOther ==
    \E q \in OtherPositions(matrix, score) :
        AskedOther("GreedyStrategy_move",
                   [ret |-> GreedyStrategy_move(q.matrix, q.last_move), self |-> strategy])

AskSafeChoiceOther ==
    \E q \in OtherPositions(matrix, score) :
        AskedOther("SafeChoiceStrategy_move",
                   SafeChoiceStrategy_move_self(strategy, q.matrix, q.last_move))

AskAlphaBetaOther ==
    \E q \in OtherPositions(matrix, score) :
        AskedOther("AlphaBetaStrategy_move",
                   AlphaBetaStrategy_move_self(strategy, q.matrix, q.last_move, q.score))

\* the positions asked about repeatedly: every 2x2 board
RepeatBoards == BoardsWithFree(2, 4)

InitRepeat ==
    /\ matrix \in RepeatBoards
    /\ last_move \in {None} \cup AllCells(Dim(matrix))
    /\ score \in CallScores
    /\ host = "call"
    /\ current_player = 0
    /\ players = <<"none", "none">>
    /\ buttons = <<>>
    /\ timers = {}
    /\ dialogs = 0
    /\ err = "none"
    /\ result = NoResult
    /\ pc = "ready"
    /\ callee = "none"
    /\ ret = None
    /\ NoSearch

NextRepeat ==
    \/ AskGreedy
    \/ AskSafeChoice
    \/ AskAlphaBeta
    \/ AskGreedyOther
    \/ AskSafeChoiceOther
    \/ AskAlphaBetaOther

SpecRepeat == InitRepeat /\ [][NextRepeat]_vars

\* C23: once a Greedy, SafeChoice or AlphaBeta object has answered for a
\* position, every later call of move() on that object with the same
\* board, last_move and scores returns the same move, whatever positions
\* the object decided in between
C23_SameAnswerAgain ==
    [][(callee # "none" /\ pc' = "returned") => ret' = ret]_vars

\* the object has answered for the position a second time after deciding
\* a position of the other player, in which it
\* returned a move
C23_Witness ==
    /\ pc = "returned"
    /\ iterations >= 1
    /\ callee \in {"SafeChoiceStrategy_move", "AlphaBetaStrategy_move"}
    /\ ret # None
    /\ Cardinality(LegalSet(matrix, last_move)) >= 2

----------------------------------------------------------------------------
(* The strategy factories.  players holds the two strategy names handed to *)
(* a factory, ret the objects it constructed (the class of each), up to   *)
(* the first call that raised.                                             *)

\* GameSetup.create_strategy: the class constructed, "ValueError" if it raises
GameSetup_create_strategy(strategy_name) ==
    CASE strategy_name = "random" -> "RandomStrategy"
      [] strategy_name = "safe_choice" -> "SafeChoiceStrategy"
      [] strategy_name = "greedy" -> "GreedyStrategy"
      [] strategy_name = "MCTS" -> "MCTSStrategy"
      [] strategy_name = "minimax" -> "AlphaBetaStrategy"
      [] OTHER -> "ValueError"

\* create_strategy of SimulationHandler.py
Sim_create_strategy(name) ==
    IF name = "Random" THEN "RandomStrategy"
    ELSE IF name = "Greedy" THEN "GreedyStrategy"
    ELSE IF name = "SafeChoice" THEN "SafeChoiceStrategy"
    ELSE IF name = "MCTS" THEN "MCTSStrategy"
    ELSE IF name = "Minimax" THEN "AlphaBetaStrategy"
    ELSE "ValueError"

\* two factory calls in a row: the second one is not reached if the first raises
Constructed(first, second) ==
    IF first = "ValueError" THEN <<first>> ELSE <<first, second>>

\* GameSetup.create_players with two computer players
GameSetupCreatePlayers ==
    /\ host = "GameSetup"
    /\ pc = "ready"
    /\ LET made == Constructed(GameSetup_create_strategy(players[1]),
                               GameSetup_create_strategy(players[2]))
       IN /\ ret' = made
          /\ err' = IF "ValueError" \in Range(made) THEN "ValueError" ELSE err
          /\ pc' = IF "ValueError" \in Range(made) THEN "raised" ELSE "returned"
    /\ callee' = "create_players"
    /\ UNCHANGED <<searchVars, host, strategy, gameVars, players, guiVars, result>>

\* SimulationRunner.run_match: the two players of the first game of a match
RunMatchCreatePlayers ==
    /\ host = "SimulationRunner"
    /\ pc = "ready"
    /\ LET made == Constructed(Sim_create_strategy(players[1]),
                               Sim_create_strategy(players[2]))
       IN /\ ret' = made
          /\ err' = IF "ValueError" \in Range(made) THEN "ValueError" ELSE err
          /\ pc' = IF "ValueError" \in Range(made) THEN "raised" ELSE "returned"
    /\ callee' = "run_match"
    /\ UNCHANGED <<searchVars, host, strategy, gameVars, players, guiVars, result>>

\* the names handed to a factory: the five of the design, the defaults of
\* SimulationRunner and some names no factory knows
StrategyNames ==
    {"random", "greedy", "safe_choice", "MCTS", "minimax",
     "Random", "Greedy", "SafeChoice", "Minimax", "mcts", "human", ""}

InitFactory ==
    /\ host \in {"GameSetup", "SimulationRunner"}
    /\ players \in StrategyNames \X StrategyNames
    /\ matrix = <<>>
    /\ last_move = None
    /\ score = <<0, 0>>
    /\ current_player = 0
    /\ buttons = <<>>
    /\ timers = {}
    /\ dialogs = 0
    /\ err = "none"
    /\ result = NoResult
    /\ pc = "ready"
    /\ callee = "none"
    /\ ret = None
    /\ NoSearch

NextFactory ==
    \/ GameSetupCreatePlayers
    \/ RunMatchCreatePlayers

SpecFactory == InitFactory /\ [][NextFactory]_vars

\* the constructor the design assigns to each strategy name
StrategyConstructor(name) ==
    CASE name = "random" -> "RandomStrategy"
      [] name = "greedy" -> "GreedyStrategy"
      [] name = "safe_choice" -> "SafeChoiceStrategy"
      [] name = "MCTS" -> "MCTSStrategy"
      [] name = "minimax" -> "AlphaBetaStrategy"
      [] OTHER -> "ValueError"

\* C24: each factory call made for a name constructs the strategy the
\* design assigns to that name, and raises for every name outside the five
C24_FactoryMapping ==
    callee \in {"create_players", "run_match"} =>
        \A i \in 1..Len(ret) : ret[i] = StrategyConstructor(players[i])

----------------------------------------------------------------------------
(* MCTSStrategy: the search tree as objects.  heap[k] is the k-th board   *)
(* object the search allocated; a node holds the index of its board, so   *)
(* that two nodes can share one object; nodes[1] is the root and a parent *)
(* of 0 is None.  score_total and sim_result are kept multiplied by       *)
(* total_sum, which makes them integers.                                   *)

MaxIter == 3

\* every ordering of the sequence s
Perms(s) ==
    {[i \in 1..Len(s) |-> s[f[i]]] :
        f \in {g \in [1..Len(s) -> 1..Len(s)] :
                  \A i, j \in 1..Len(s) : i # j => g[i] # g[j]}}

\* untried_actions after random.shuffle alone
Untried_orders_unsorted(board, lm) == Perms(MCTS_get_available_moves(board, lm))

\* untried_actions after random.shuffle and the stable sort by cell value:
\* ascending by value, moves of equal value in any order
Untried_orders(board, lm) ==
    {p \in Perms(MCTS_get_available_moves(board, lm)) :
        \A i \in 1..(Len(p) - 1) :
            board[p[i][1]][p[i][2]] <= board[p[i + 1][1]][p[i + 1][2]]}

\* MCTSNode.__init__
MCTSNode(board_ref, lm, player_turn, parent, mv, scores, untried) ==
    [board |-> board_ref, last_move |-> lm, player_turn |-> player_turn,
     parent |-> parent, move |-> mv, scores |-> scores, visits |-> 0,
     score_total |-> 0, children |-> <<>>, untried_actions |-> untried]

\* MCTSNode.is_terminal
MCTS_is_terminal(n) == Len(n.untried_actions) = 0 /\ Len(n.children) = 0

\* MCTSNode.is_fully_expanded
MCTS_is_fully_expanded(n) == Len(n.untried_actions) = 0

\* sum(v for row in internal_board for v in row if v > 0) or 1
RECURSIVE SumCells(_, _)
SumCells(board, cells) ==
    IF cells = {}
    THEN 0
    ELSE LET p == CHOOSE q \in cells : TRUE
         IN (IF board[p[1]][p[2]] > 0 THEN board[p[1]][p[2]] ELSE 0)
            + SumCells(board, cells \ {p})

Total_sum(board) ==
    LET t == SumCells(board, AllCells(Dim(board)))
    IN IF t = 0 THEN 1 ELSE t

\* [row[:] for row in self.board]: a new board object with the same content
MCTS_copy_board_alias(h, ref) == [heap |-> h, ref |-> ref]

MCTS_copy_board(h, ref) == [heap |-> Append(h, h[ref]), ref |-> Len(h) + 1]

\* MCTSNode.best_child: the children it can return, 0 when math.log raises.
\* The first unvisited child is returned at once; among children that are
\* all visited the UCB1 maximum is a comparison of floating-point square
\* roots and logarithms, which is left open: any child.
Best_child(ns, n) ==
    IF ns[n].visits = 0
    THEN {0}
    ELSE LET ch == ns[n].children
             unvisited == {k \in 1..Len(ch) : ns[ch[k]].visits = 0}
         IN IF unvisited # {}
            THEN {ch[CHOOSE k \in unvisited : \A j \in unvisited : k <= j]}
            ELSE Range(ch)

\* the selection loop of MCTSStrategy.move from node n: the nodes it can
\* stop at, 0 when best_child raises
RECURSIVE Select_from(_, _)
Select_from(ns, n) ==
    IF n = 0
    THEN {0}
    ELSE IF ~MCTS_is_terminal(ns[n]) /\ MCTS_is_fully_expanded(ns[n])
         THEN UNION {Select_from(ns, c) : c \in Best_child(ns, n)}
         ELSE {n}

\* MCTSStrategy.simulate: every final <<p1_score, p2_score>> a rollout can
\* reach.  random.choice can pick any move, the greedy branch picks one of
\* them, so every sequence of legal moves is a possible rollout.
RECURSIVE Rollout_scores(_, _, _, _, _)
Rollout_scores(copied_board, copied_last_move, p1_score, p2_score, sim_turn) ==
    LET moves == Rollout_moves(copied_board, copied_last_move)
    IN IF Len(moves) = 0
       THEN {<<p1_score, p2_score>>}
       ELSE UNION {LET mv == moves[k]
                       val == copied_board[mv[1]][mv[2]]
                   IN Rollout_scores([copied_board EXCEPT ![mv[1]][mv[2]] = 0], mv,
                                     IF sim_turn = 1 THEN p1_score + val ELSE p1_score,
                                     IF sim_turn = 1 THEN p2_score ELSE p2_score + val,
                                     3 - sim_turn) :
                   k \in 1..Len(moves)}

\* a rollout always judged from the view of player 1
Simulate_raw_p1(h, n) ==
    {sc[1] - sc[2] :
        sc \in Rollout_scores(h[n.board], n.last_move, n.scores[1], n.scores[2],
                              n.player_turn)}

\* raw of simulate: the score difference from the view of the node's mover
Simulate_raw(h, n) ==
    {IF n.player_turn = 1 THEN sc[1] - sc[2] ELSE sc[2] - sc[1] :
        sc \in Rollout_scores(h[n.board], n.last_move, n.scores[1], n.scores[2],
                              n.player_turn)}

\* a walk that stops at the node it starts from
Path_up_node_only(ns, n) == IF n = 0 THEN <<>> ELSE <<n>>

\* the nodes backpropagate walks through, from n up to the root
RECURSIVE Path_up(_, _)
Path_up(ns, n) == IF n = 0 THEN <<>> ELSE <<n>> \o Path_up(ns, ns[n].parent)

\* a walk up the tree that gives every node the result with the sign of
\* the first one
Backpropagated_same_sign(ns, n, res) ==
    LET path == Path_up(ns, n)
    IN [i \in 1..Len(ns) |->
           IF \E d \in 1..Len(path) : path[d] = i
           THEN [ns[i] EXCEPT !.visits = @ + 1, !.score_total = @ - res]
           ELSE ns[i]]

\* MCTSStrategy.backpropagate with MCTSNode.update: the sign starts at -1
\* and flips at every level
Backpropagated(ns, n, res) ==
    LET path == Path_up(ns, n)
    IN [i \in 1..Len(ns) |->
           IF \E d \in 1..Len(path) : path[d] = i
           THEN LET d == CHOOSE e \in 1..Len(path) : path[e] = i
                    sign == IF d % 2 = 1 THEN -1 ELSE 1
                IN [ns[i] EXCEPT !.visits = @ + 1,
                                 !.score_total = @ + sign * res]
           ELSE ns[i]]

\* the max_iterations a caller constructs the strategy with
IterationCaps == {1, default_max_iterations}

\* MCTSStrategy(max_iterations=cap).move up to the search loop
MCTSStart ==
    /\ pc = "ready"
    /\ max_iterations' \in IterationCaps
    /\ LET internal_board == ToInternal(matrix)
           player_id == PlayerIdOf(internal_board)
       IN /\ total_sum' = Total_sum(internal_board)
          /\ heap' = <<internal_board>>
          /\ \E untried \in Untried_orders(internal_board, last_move) :
                /\ nodes' = <<MCTSNode(1, last_move, player_id, 0, None, score, untried)>>
                /\ pc' = IF Len(untried) <= 1 THEN "returned" ELSE "loop"
                /\ ret' = IF Len(untried) = 1 THEN untried[1] ELSE None
    /\ callee' = "MCTSStrategy_move"
    /\ UNCHANGED <<host, strategy, gameVars, players, guiVars, err, result, cur_node, iterations,
                   sim_result>>

\* the clock still allows a pass: selection
MCTSSelect ==
    /\ pc = "loop"
    /\ iterations < MaxIter
    /\ iterations' = iterations + 1
    /\ \E n \in Select_from(nodes, 1) :
          /\ cur_node' = n
          /\ pc' = IF n = 0 THEN "raised" ELSE "selected"
          /\ err' = IF n = 0 THEN "ValueError" ELSE err
    /\ UNCHANGED <<host, strategy, gameVars, players, guiVars, result, callee, ret, heap, nodes,
                   sim_result, total_sum, max_iterations>>

\* expansion: MCTSNode.expand when the selected node has an untried action
MCTSExpand ==
    /\ pc = "selected"
    /\ pc' = "expanded"
    /\ IF ~MCTS_is_terminal(nodes[cur_node]) /\ ~MCTS_is_fully_expanded(nodes[cur_node])
       THEN LET self == nodes[cur_node]
                action == self.untried_actions[Len(self.untried_actions)]
                rest == SubSeq(self.untried_actions, 1, Len(self.untried_actions) - 1)
                copied == MCTS_copy_board(heap, self.board)
                value_of_move == copied.heap[copied.ref][action[1]][action[2]]
                written == [copied.heap EXCEPT ![copied.ref][action[1]][action[2]] = 0]
                new_scores == [self.scores EXCEPT ![self.player_turn] = @ + value_of_move]
                child == Len(nodes) + 1
            IN /\ heap' = written
               /\ \E untried \in Untried_orders(written[copied.ref], action) :
                     nodes' = Append([nodes EXCEPT
                                         ![cur_node].untried_actions = rest,
                                         ![cur_node].children = Append(@, child)],
                                     MCTSNode(copied.ref, action, 3 - self.player_turn,
                                              cur_node, action, new_scores, untried))
               /\ cur_node' = child
       ELSE UNCHANGED <<heap, nodes, cur_node>>
    /\ UNCHANGED <<host, strategy, gameVars, players, guiVars, err, result, callee, ret,
                   iterations, sim_result, total_sum, max_iterations>>

\* simulation: one rollout from the node
MCTSSimulate ==
    /\ pc = "expanded"
    /\ pc' = "simulated"
    /\ sim_result' \in Simulate_raw(heap, nodes[cur_node])
    /\ UNCHANGED <<host, strategy, gameVars, players, guiVars, err, result, callee, ret, heap,
                   nodes, cur_node, iterations, total_sum, max_iterations>>

\* backpropagation, then back to the clock test of the loop
MCTSBackpropagate ==
    /\ pc = "simulated"
    /\ pc' = "loop"
    /\ nodes' = Backpropagated(nodes, cur_node, sim_result)
    /\ UNCHANGED <<host, strategy, gameVars, players, guiVars, err, result, callee, ret, heap,
                   cur_node, iterations, sim_result, total_sum, max_iterations>>

\* the clock has run out: max(root.children, key=visits), which raises
\* ValueError on an empty list
MCTSDecide ==
    /\ pc = "loop"
    /\ LET ch == nodes[1].children
       IN IF Len(ch) = 0
          THEN /\ pc' = "raised"
               /\ err' = "ValueError"
               /\ ret' = ret
          ELSE /\ pc' = "returned"
               /\ err' = err
               /\ ret' = nodes[ch[PyMaxIndex([k \in 1..Len(ch) |-> nodes[ch[k]].visits])]].move
    /\ UNCHANGED <<host, strategy, gameVars, players, guiVars, result, callee, searchVars>>

----------------------------------------------------------------------------
(* AlphaBetaStrategy: the nodes and boards its tree allocates.  The move  *)
(* it returns is AlphaBetaStrategy_move; the actions below follow the     *)
(* objects that generate_children creates on the way.  alpha_beta calls   *)
(* generate_children on a node it reaches with depth left, which nodes it *)
(* reaches depends on the pruning: any such node, at most MaxGen of them. *)

MaxGen == 2

\* new_board = [row[:] for row in self.board]
AB_copy_board(h, ref) == [heap |-> Append(h, h[ref]), ref |-> Len(h) + 1]

\* the loop of AlphaBetaNode.generate_children over moves[k..] of node n
RECURSIVE AB_children_from(_, _, _, _, _)
AB_children_from(h, ns, n, moves, k) ==
    IF k > Len(moves)
    THEN [heap |-> h, nodes |-> ns]
    ELSE LET self == ns[n]
             mv == moves[k]
             val == h[self.board][mv[1]][mv[2]]
             copied == AB_copy_board(h, self.board)
             written == [copied.heap EXCEPT ![copied.ref][mv[1]][mv[2]] = 0]
             child == [board |-> copied.ref, last_move |-> mv,
                       player_id |-> 3 - self.player_id, parent |-> n, move |-> mv,
                       scores |-> IF self.player_id = 1
                                  THEN <<self.scores[1] + val, self.scores[2]>>
                                  ELSE <<self.scores[1], self.scores[2] + val>>,
                       children |-> <<>>, depth |-> self.depth - 1]
         IN AB_children_from(written,
                             Append([ns EXCEPT ![n].children = Append(@, Len(ns) + 1)],
                                    child),
                             n, moves, k + 1)

\* AlphaBetaStrategy.move up to the root's generate_children
ABStart ==
    /\ pc = "ready"
    /\ LET internal_board == ToInternal(matrix)
           player_id == PlayerIdOf(internal_board)
           terminal == Len(AB_get_available_moves(internal_board, last_move)) = 0
       IN /\ heap' = <<internal_board>>
          /\ nodes' = <<[board |-> 1, last_move |-> last_move, player_id |-> player_id,
                         parent |-> 0, move |-> None, scores |-> score,
                         children |-> <<>>,
                         depth |-> Dynamic_depth(internal_board)]>>
          /\ pc' = IF terminal THEN "returned" ELSE "ab_search"
    /\ ret' = None
    /\ callee' = "AlphaBetaStrategy_move"
    /\ UNCHANGED <<host, strategy, gameVars, players, guiVars, err, result, cur_node, iterations,
                   sim_result, total_sum, max_iterations>>

\* AlphaBetaNode.generate_children on a node without children
ABGenerateChildren ==
    /\ pc = "ab_search"
    /\ iterations < MaxGen
    /\ iterations' = iterations + 1
    /\ \E n \in 1..Len(nodes) :
          LET moves == AB_get_available_moves(heap[nodes[n].board], nodes[n].last_move)
              made == AB_children_from(heap, nodes, n, moves, 1)
          IN /\ Len(nodes[n].children) = 0
             /\ nodes[n].depth # 0
             /\ Len(moves) # 0
             /\ n = 1 \/ Len(nodes[1].children) # 0
             /\ heap' = made.heap
             /\ nodes' = made.nodes
    /\ UNCHANGED <<host, strategy, gameVars, players, guiVars, err, result, pc, callee, ret, cur_node,
                   sim_result, total_sum, max_iterations>>

\* the search is over: the move of the best root child
ABReturn ==
    /\ pc = "ab_search"
    /\ Len(nodes[1].children) # 0
    /\ pc' = "returned"
    /\ ret' = AlphaBetaStrategy_move(matrix, last_move, score)
    /\ UNCHANGED <<host, strategy, gameVars, players, guiVars, err, result, callee, searchVars>>

----------------------------------------------------------------------------
(* The five strategies called on every 2x2 board *)

SearchBoards == BoardsWithFree(2, 4)

InitSearch ==
    /\ matrix \in SearchBoards
    /\ last_move \in {None} \cup AllCells(Dim(matrix))
    /\ score \in CallScores
    /\ host = "search"
    /\ current_player = 0
    /\ players = <<"none", "none">>
    /\ buttons = <<>>
    /\ timers = {}
    /\ dialogs = 0
    /\ err = "none"
    /\ result = NoResult
    /\ pc = "ready"
    /\ callee = "none"
    /\ ret = None
    /\ NoSearch

NextSearch ==
    \/ CallRandom
    \/ CallGreedy
    \/ CallSafeChoice
    \/ MCTSStart
    \/ MCTSSelect
    \/ MCTSExpand
    \/ MCTSSimulate
    \/ MCTSBackpropagate
    \/ MCTSDecide
    \/ ABStart
    \/ ABGenerateChildren
    \/ ABReturn

SpecSearch == InitSearch /\ [][NextSearch]_vars

\* C3: once MCTSStrategy.move has ended on a board of positive values, it
\* has returned, not raised, and what it returned is None exactly when no
\* move is legal and a legal move otherwise, however many passes of the
\* search loop ran
C3_MCTSLegal ==
    (callee = "MCTSStrategy_move" /\ pc \in {"returned", "raised"}
     /\ PositiveBoard(matrix)) =>
        /\ pc = "returned"
        /\ (ret = None) <=> (LegalSet(matrix, last_move) = {})
        /\ ret # None => ret \in LegalSet(matrix, last_move)

\* C17: with exactly one legal move MCTSStrategy.move returns that move,
\* with none it returns None, and in both cases no pass of the search loop
\* has run: no child exists and the root was never visited
C17_MCTSShortCircuit ==
    (callee = "MCTSStrategy_move" /\ Cardinality(LegalSet(matrix, last_move)) <= 1) =>
        /\ pc = "returned"
        /\ LegalSet(matrix, last_move) = {} => ret = None
        /\ LegalSet(matrix, last_move) # {} => LegalSet(matrix, last_move) = {ret}
        /\ iterations = 0
        /\ Len(nodes) = 1
        /\ nodes[1].visits = 0

\* the root child whose move MCTSStrategy.move has returned
ReturnedChild == CHOOSE c \in Range(nodes[1].children) : nodes[c].move = ret

\* C18: after the search loop MCTSStrategy.move returns the move of a root
\* child that no root child exceeds in visits, and of the earliest created
\* one among those
C18_MostVisitedFirst ==
    (callee = "MCTSStrategy_move" /\ pc = "returned" /\ Len(nodes[1].children) > 0) =>
        /\ \E c \in Range(nodes[1].children) : nodes[c].move = ret
        /\ \A c \in Range(nodes[1].children) :
              /\ nodes[c].visits <= nodes[ReturnedChild].visits
              /\ nodes[c].visits = nodes[ReturnedChild].visits => ReturnedChild <= c

\* the returned move belongs to the most visited root child although
\* another root child has the higher average result
C18_Witness ==
    /\ callee = "MCTSStrategy_move"
    /\ pc = "returned"
    /\ Len(nodes[1].children) >= 2
    /\ \E c \in Range(nodes[1].children) :
          /\ nodes[c].visits < nodes[ReturnedChild].visits
          /\ nodes[c].score_total * nodes[ReturnedChild].visits
                > nodes[ReturnedChild].score_total * nodes[c].visits

\* C19: no call of MCTSStrategy.move runs more passes of the search loop
\* than max_iterations
C19_IterationCap ==
    callee = "MCTSStrategy_move" => iterations <= max_iterations

\* the node k parent links above node n, 0 beyond the root
RECURSIVE Ancestor(_, _, _)
Ancestor(ns, n, k) ==
    IF k = 0 \/ n = 0 THEN n ELSE Ancestor(ns, ns[n].parent, k - 1)

\* C26: backpropagate(node, r) adds -r to the accumulated result of node,
\* +r to that of its parent and so on with alternating sign up to the
\* root, adds one to the visits of each of these nodes, and changes no
\* other node and no other field (results are held times total_sum)
C26_BackpropagateEffect ==
    [][(pc = "simulated" /\ pc' = "loop") =>
          /\ Len(nodes') = Len(nodes)
          /\ \A i \in 1..Len(nodes) :
                IF \E k \in 0..Len(nodes) : Ancestor(nodes, cur_node, k) = i
                THEN LET k == CHOOSE j \in 0..Len(nodes) : Ancestor(nodes, cur_node, j) = i
                     IN nodes'[i] =
                           [nodes[i] EXCEPT
                               !.visits = @ + 1,
                               !.score_total =
                                   @ + (IF k % 2 = 0 THEN 0 - sim_result ELSE sim_result)]
                ELSE nodes'[i] = nodes[i]
          /\ \E k \in 0..Len(nodes) : Ancestor(nodes, cur_node, k) = 1]_vars

\* a backpropagation of a non-zero result has run from a grandchild of the
\* root, another child of the root lying off its path: the node lost what
\* its parent gained
C26_Witness ==
    /\ callee = "MCTSStrategy_move"
    /\ pc = "loop"
    /\ cur_node # 0
    /\ sim_result # 0
    /\ Len(nodes[1].children) >= 2
    /\ nodes[cur_node].parent \notin {0, 1}
    /\ nodes[cur_node].visits = 1
    /\ nodes[cur_node].score_total = 0 - sim_result

\* the final scores of the games that continue a state by legal moves
\* until the player to move has none
RECURSIVE Playout_finals(_, _, _, _)
Playout_finals(board, lm, scores, turn) ==
    IF LegalSet0(board, lm) = {}
    THEN {scores}
    ELSE UNION {Playout_finals([board EXCEPT ![mv[1]][mv[2]] = 0], mv,
                               [scores EXCEPT ![turn] = @ + board[mv[1]][mv[2]]],
                               3 - turn) :
                   mv \in LegalSet0(board, lm)}

\* the rollout result is the final score difference of a playout from the
\* node, seen by the player to move at the node (times total_sum)
RolloutFromMoverView ==
    (pc = "expanded" /\ pc' = "simulated") =>
        \E final \in Playout_finals(heap[nodes[cur_node].board], nodes[cur_node].last_move,
                                     nodes[cur_node].scores, nodes[cur_node].player_turn) :
            sim_result' = final[nodes[cur_node].player_turn]
                          - final[3 - nodes[cur_node].player_turn]

\* the rollout's score difference seen by player q, given that seen by the
\* player to move at the node the rollout started from
DifferenceFor(q) ==
    IF q = nodes[cur_node].player_turn THEN sim_result ELSE 0 - sim_result

\* C27 as stated: a simulate-and-backpropagate step adds to each node on
\* the path the rollout's score difference seen by the player who is about
\* to move at that node
C27_ResultForMover ==
    [][/\ RolloutFromMoverView
       /\ (pc = "simulated" /\ pc' = "loop") =>
             \A i \in 1..Len(nodes) :
                 (\E k \in 0..Len(nodes) : Ancestor(nodes, cur_node, k) = i) =>
                     nodes'[i].score_total - nodes[i].score_total
                         = DifferenceFor(nodes[i].player_turn)]_vars

\* C27: a simulate-and-backpropagate step adds to each node on the path the
\* rollout's score difference seen by the opponent of the player who is
\* about to move at that node, the player whose move led to the node: the
\* amount is positive exactly when the player to move there finished behind
C27_ResultForOpponent ==
    [][/\ RolloutFromMoverView
       /\ (pc = "simulated" /\ pc' = "loop") =>
             \A i \in 1..Len(nodes) :
                 (\E k \in 0..Len(nodes) : Ancestor(nodes, cur_node, k) = i) =>
                     nodes'[i].score_total - nodes[i].score_total
                         = DifferenceFor(3 - nodes[i].player_turn)]_vars

\* the first pass of the loop is over, the player to move at the expanded
\* node won its rollout, and the node's accumulated result is negative
\* while the root's is positive
C27_Witness ==
    /\ callee = "MCTSStrategy_move"
    /\ pc = "loop"
    /\ iterations = 1
    /\ cur_node = 2
    /\ sim_result > 0
    /\ nodes[2].score_total < 0
    /\ nodes[1].score_total > 0
    /\ nodes[1].player_turn # nodes[2].player_turn

\* the value node n's board holds at cell mv
ValueAt(n, mv) == heap[nodes[n].board][mv[1]][mv[2]]

\* the moves of node n's children are in non-increasing order of value and
\* no untried move of n has a higher value than any of them
ExpandedHighestFirst(n) ==
    LET ch == nodes[n].children
    IN /\ \A j, k \in 1..Len(ch) :
             j < k => ValueAt(n, nodes[ch[j]].move) >= ValueAt(n, nodes[ch[k]].move)
       /\ \A k \in 1..Len(ch) : \A mv \in Range(nodes[n].untried_actions) :
             ValueAt(n, mv) <= ValueAt(n, nodes[ch[k]].move)

\* C28: the expansions of a node take its untried moves in non-increasing
\* order of cell value, and each expansion removes one untried move and
\* creates exactly one child, whose state is the node's with that move
\* applied: cell claimed, value credited to the node's player to move, turn
\* flipped, the move as last move; no other node changes
C28_ExpandOrderAndChild ==
    /\ [](callee = "MCTSStrategy_move" => \A n \in 1..Len(nodes) : ExpandedHighestFirst(n))
    /\ [][(pc = "selected" /\ pc' = "expanded" /\ nodes' # nodes) =>
             LET n == cur_node
                 c == Len(nodes) + 1
                 mv == nodes'[c].move
             IN /\ Len(nodes') = c
                /\ cur_node' = c
                /\ mv \in Range(nodes[n].untried_actions)
                /\ \A q \in Range(nodes[n].untried_actions) : ValueAt(n, q) <= ValueAt(n, mv)
                /\ Range(nodes'[n].untried_actions) = Range(nodes[n].untried_actions) \ {mv}
                /\ Len(nodes'[n].untried_actions) = Len(nodes[n].untried_actions) - 1
                /\ nodes'[n] = [nodes[n] EXCEPT !.untried_actions = nodes'[n].untried_actions,
                                                !.children = Append(@, c)]
                /\ \A i \in 1..Len(nodes) : i # n => nodes'[i] = nodes[i]
                /\ heap'[nodes'[c].board]
                      = [heap[nodes[n].board] EXCEPT ![mv[1]][mv[2]] = 0]
                /\ nodes'[c].scores
                      = [nodes[n].scores EXCEPT ![nodes[n].player_turn] = @ + ValueAt(n, mv)]
                /\ nodes'[c].last_move = mv
                /\ nodes'[c].player_turn = 3 - nodes[n].player_turn
                /\ nodes'[c].parent = n
                /\ nodes'[c].children = <<>>
                /\ nodes'[c].visits = 0]_vars

\* the root was expanded twice, first by a move of higher value than the
\* second, and a move of no higher value than the second is untried
C28_Witness ==
    /\ callee = "MCTSStrategy_move"
    /\ pc = "expanded"
    /\ Len(nodes[1].children) = 2
    /\ ValueAt(1, nodes[nodes[1].children[1]].move)
          > ValueAt(1, nodes[nodes[1].children[2]].move)
    /\ \E mv \in Range(nodes[1].untried_actions) :
          ValueAt(1, mv) <= ValueAt(1, nodes[nodes[1].children[2]].move)

\* the sum of the visit counts of the nodes ch[k..]
RECURSIVE SumVisits(_, _)
SumVisits(ch, k) ==
    IF k > Len(ch) THEN 0 ELSE nodes[ch[k]].visits + SumVisits(ch, k + 1)

\* the legal moves of the state node n stands for: the cells of the caller's
\* board that neither were claimed there nor were taken on the way from the
\* root to n, in the row or column of the node's last move
LegalAt(n) ==
    LET path == {Ancestor(nodes, n, k) : k \in 0..Len(nodes)} \ {0}
        taken == {nodes[a].move : a \in path}
        lm == nodes[n].last_move
    IN {p \in Unclaimed(matrix) \ taken : lm = None \/ p[1] = lm[1] \/ p[2] = lm[2]}

\* C29: MCTSStrategy.move decides only between complete iterations; then
\* the root's visits equal the number of iterations started and the sum of
\* its children's visits, every other node has been visited, and the
\* visits of every other node with a legal move are one more than the sum
\* of its children's visits
C29_CompleteIterations ==
    /\ [][(callee = "MCTSStrategy_move" /\ pc' = "returned") => pc = "loop"]_vars
    /\ []((callee = "MCTSStrategy_move" /\ pc \in {"loop", "returned"}) =>
             /\ nodes[1].visits = iterations
             /\ nodes[1].visits = SumVisits(nodes[1].children, 1)
             /\ \A n \in 2..Len(nodes) :
                   /\ nodes[n].visits >= 1
                   /\ LegalAt(n) # {} =>
                         nodes[n].visits = 1 + SumVisits(nodes[n].children, 1))

\* the moves node n knows of: those of its children, then its untried ones
KnownMoves(n) ==
    [k \in 1..Len(nodes[n].children) |-> nodes[nodes[n].children[k]].move]
        \o nodes[n].untried_actions

\* C30: throughout MCTSStrategy.move, for every node of the tree, the moves
\* of its children together with its untried moves are exactly its legal
\* moves, none twice; is_terminal() holds exactly when the node has no legal
\* move and is_fully_expanded() exactly when every legal move has a child
C30_TreeCoversLegalMoves ==
    callee = "MCTSStrategy_move" =>
        \A n \in 1..Len(nodes) :
            /\ Range(KnownMoves(n)) = LegalAt(n)
            /\ \A a, b \in 1..Len(KnownMoves(n)) :
                  KnownMoves(n)[a] = KnownMoves(n)[b] => a = b
            /\ MCTS_is_terminal(nodes[n]) <=> (LegalAt(n) = {})
            /\ MCTS_is_fully_expanded(nodes[n]) <=>
                  \A mv \in LegalAt(n) :
                      \E k \in 1..Len(nodes[n].children) :
                          nodes[nodes[n].children[k]].move = mv

\* the nodes the selection loop calls best_child on when it starts at n
RECURSIVE BestChildCalls(_, _)
BestChildCalls(ns, n) ==
    IF n = 0
    THEN {}
    ELSE IF ~MCTS_is_terminal(ns[n]) /\ MCTS_is_fully_expanded(ns[n])
         THEN {n} \cup UNION {BestChildCalls(ns, c) : c \in Best_child(ns, n)}
         ELSE {}

\* C31: no step of selection and expansion fails: best_child is called only
\* on a visited node with a child, all of whose children are visited, and
\* returns a child; expand is called only on a node with an untried move;
\* the node handed to simulate and backpropagate exists
C31_SelectionNeverFails ==
    /\ []((callee = "MCTSStrategy_move" /\ pc = "loop") =>
             \A n \in BestChildCalls(nodes, 1) :
                 /\ nodes[n].visits >= 1
                 /\ Len(nodes[n].children) >= 1
                 /\ \A k \in 1..Len(nodes[n].children) :
                       nodes[nodes[n].children[k]].visits >= 1
                 /\ Best_child(nodes, n) # {}
                 /\ Best_child(nodes, n) \subseteq Range(nodes[n].children))
    /\ [][(callee = "MCTSStrategy_move" /\ pc = "loop" /\ iterations' # iterations) =>
             pc' = "selected" /\ cur_node' # 0]_vars
    /\ []((callee = "MCTSStrategy_move" /\ pc \in {"selected", "expanded", "simulated"}) =>
             /\ cur_node \in 1..Len(nodes)
             /\ (pc = "selected" /\ ~MCTS_is_fully_expanded(nodes[cur_node])) =>
                   Len(nodes[cur_node].untried_actions) >= 1)

\* a pass of the loop whose selection went down from the root by best_child
C31_Witness ==
    /\ callee = "MCTSStrategy_move"
    /\ pc = "simulated"
    /\ nodes[1].visits >= 2
    /\ MCTS_is_fully_expanded(nodes[1])
    /\ cur_node # 1

\* C9: no step of any of the five strategies changes the caller's board,
\* last move or scores, and no step changes the board of a node that
\* already exists: expand and generate_children write to fresh copies only
C9_NoMutation ==
    [][/\ matrix' = matrix
       /\ last_move' = last_move
       /\ score' = score
       /\ \A n \in 1..Len(nodes) :
             (Len(nodes') >= n /\ pc # "ready") =>
                 heap'[nodes'[n].board] = heap[nodes[n].board]]_vars

\* an expansion has created a second child of the root
C9_Witness ==
    /\ callee = "MCTSStrategy_move"
    /\ pc = "expanded"
    /\ Len(nodes) >= 3
    /\ Len(nodes[1].children) >= 2
    /\ heap[nodes[3].board] # heap[nodes[1].board]

----------------------------------------------------------------------------
(* MCTSStrategy.move called by run_game in the course of a game: the 2x2   *)
(* boards whose values are the smallest and the largest that              *)
(* create_random_board draws                                              *)

\* random.randint(1, 9)
RandomBoardVals == {1, 9}

RolloutBoards == [0..1 -> [0..1 -> RandomBoardVals]]

InitRollout ==
    /\ host = "SimulationEngine"
    /\ matrix \in RolloutBoards
    /\ players = <<"other", "other">>
    /\ buttons = <<>>
    /\ pc = "running"
    /\ last_move = None
    /\ score = <<0, 0>>
    /\ current_player = 0
    /\ timers = {}
    /\ dialogs = 0
    /\ err = "none"
    /\ result = NoResult
    /\ callee = "none"
    /\ ret = None
    /\ NoSearch

\* run_game calls player.move(self.matrix, self.last_move, self.score)
RunGameCallsMove ==
    /\ host = "SimulationEngine"
    /\ pc = "running"
    /\ Sim_get_available_moves(matrix, Dim(matrix), last_move) # <<>>
    /\ pc' = "ready"
    /\ callee' = "run_game"
    /\ ret' = None
    /\ UNCHANGED <<searchVars, host, strategy, gameVars, players, guiVars, err, result>>

NextRollout ==
    \/ RunGameBreak
    \/ RunGameRaise
    \/ RunGameApply
    \/ RunGameCallsMove
    \/ MCTSStart
    \/ MCTSSelect
    \/ MCTSExpand
    \/ MCTSSimulate
    \/ MCTSBackpropagate
    \/ MCTSDecide

SpecRollout == InitRollout /\ [][NextRollout]_vars

\* C34: in a search started from a state of a game the normalizing total is
\* at least 1, the result of every rollout is at most 1 in absolute value
\* (at most total_sum before the division), and so is every amount that
\* backpropagation adds to a node
C34_RolloutResultBounded ==
    /\ [](callee = "MCTSStrategy_move" => total_sum >= 1)
    /\ []((callee = "MCTSStrategy_move" /\ pc = "simulated") =>
             sim_result \in (0 - total_sum)..total_sum)
    /\ [][(callee = "MCTSStrategy_move" /\ pc = "simulated") =>
             \A n \in 1..Len(nodes) :
                 nodes'[n].score_total - nodes[n].score_total
                     \in (0 - total_sum)..total_sum]_vars

----------------------------------------------------------------------------
(* AlphaBetaStrategy.evaluate called on the node of a position: every 2x2 *)
(* board, either player to move, either player as the root player         *)

InitEvaluate ==
    /\ matrix \in BoardsWithFree(2, 4)
    /\ last_move \in {None} \cup AllCells(Dim(matrix))
    /\ score \in CallScores
    /\ host = "call"
    /\ current_player = 0
    /\ players = <<"none", "none">>
    /\ buttons = <<>>
    /\ timers = {}
    /\ dialogs = 0
    /\ err = "none"
    /\ result = NoResult
    /\ pc = "ready"
    /\ callee = "none"
    /\ ret = None
    /\ heap = <<ToInternal(matrix)>>
    /\ \E player_id \in {1, 2} :
          nodes = <<[board |-> 1, last_move |-> last_move, player_id |-> player_id,
                     parent |-> 0, move |-> None, scores |-> score,
                     children |-> <<>>, depth |-> 0]>>
    /\ cur_node = 0
    /\ iterations = 0
    /\ sim_result = 0
    /\ total_sum = 1
    /\ max_iterations = default_max_iterations
    /\ \E root_pid \in {1, 2} : strategy = Player_id_set(DefaultStrategy, root_pid)

\* self.evaluate(node), in units of 1/20
CallEvaluate ==
    Returned("evaluate", AB_evaluate(AB_node_at(heap, nodes, 1), strategy.player_id))

NextEvaluate == CallEvaluate

SpecEvaluate == InitEvaluate /\ [][NextEvaluate]_vars

\* the evaluation of the design in units of 1/20: score difference,
\* mobility of the side to move and the unclaimed values of the last
\* move's row and column
DesignEvaluation(m, lm, sc, to_move, p) ==
    LET mobility == Cardinality(LegalSet(m, lm))
        potential == IF lm = None
                     THEN 0
                     ELSE ValueSum(m, {q \in Unclaimed(m) : q[1] = lm[1]})
                          + ValueSum(m, {q \in Unclaimed(m) : q[2] = lm[2]})
    IN 20 * (sc[p] - sc[3 - p])
       + 5 * (IF to_move = p THEN mobility ELSE 0 - mobility)
       + potential

\* C36: evaluate returns 1.0 * (root player's score - opponent's score)
\* + 0.25 * (root mobility - opponent mobility) + 0.05 * (unclaimed values
\* of the last move's row plus those of its column), the number of legal
\* moves at the node being the mobility of the side to move there
C36_EvaluateFormula ==
    callee = "evaluate" =>
        ret = DesignEvaluation(matrix, last_move, score, nodes[1].player_id,
                               strategy.player_id)

====
